---- MODULE Spec2Model ----
(***************************************************************************)
(* Model of the colour-segmentation package: the four fuzzy-set hue        *)
(* models (Amante, Chamorro, Liu-Wang, Shamir), the arg-max classifier,    *)
(* the renderer, the achromatic overlay and the Segmentator entry point.   *)
(*                                                                         *)
(* Numbers.  A hue is an integer number of 1/HueScale degrees.  A          *)
(* membership degree is an integer number of 1/One, One = 900 * HueScale,  *)
(* so that every coefficient of the source (h/4, h/15, h/45, h/60, 0.13*h, *)
(* 7.33, 8/3, ...) is exact.  The arithmetic of the model is exact         *)
(* rational arithmetic; the source computes in IEEE doubles.               *)
(* Saturation and value are integers in 1/(100 * SVScale).                 *)
(*                                                                         *)
(* The HSV decomposition (cv2.cvtColor, skimage.color.rgb2hsv) is external *)
(* to the package: the stored image is modelled by the hue, saturation and *)
(* value the converter yields for each of its pixels.  numpy.float is      *)
(* taken to be the alias of float it was in the numpy the package was      *)
(* written for.                                                            *)
(***************************************************************************)
EXTENDS Integers, Sequences, FiniteSets, TLC

\* ------------------------------------------------------------ bounds
HueScale == 2
SVScale == 2
MaxPix == 2
MaxTick == 1
MaxClock == 1
MaxLabels == 11

\* ------------------------------------------------------------ numbers
One == 900 * HueScale
Deg(d) == d * HueScale
\* the constant p/q as a degree
Q(p, q) == (p * One) \div q
\* (p/q) * h as a degree, for a hue h in 1/HueScale degrees
H(p, q, h) == (p * h * 900) \div q

\* a Python number returned by a membership function: an int literal
\* (return 1, return 0), a float, or None when no branch is taken
PyInt(n) == [v |-> n * One, t |-> "int"]
PyFloat(x) == [v |-> x, t |-> "float"]
PyNone == [v |-> 0, t |-> "None"]

\* ------------------------------------------------------------ Amante
\* a red whose descending ramp is 3 - h/10
Amante_fuzzy_trapezoidal_red_raised(h) ==
    IF (Deg(0) < h /\ h <= Deg(10)) \/ (Deg(350) < h /\ h <= Deg(360)) THEN PyInt(1)
    ELSE IF Deg(10) <= h /\ h <= Deg(20) THEN PyFloat(Q(3, 1) - H(1, 10, h))
    ELSE IF Deg(335) <= h /\ h <= Deg(350) THEN PyFloat(H(1, 15, h) - Q(335, 15))
    ELSE PyInt(0)

Amante_fuzzy_trapezoidal_red(h) ==
    IF (Deg(0) < h /\ h <= Deg(10)) \/ (Deg(350) < h /\ h <= Deg(360)) THEN PyInt(1)
    ELSE IF Deg(10) <= h /\ h <= Deg(20) THEN PyFloat(Q(2, 1) - H(1, 10, h))
    ELSE IF Deg(335) <= h /\ h <= Deg(350) THEN PyFloat(H(1, 15, h) - Q(335, 15))
    ELSE PyInt(0)

Amante_fuzzy_trapezoidal_brown(h) ==
    IF Deg(10) < h /\ h <= Deg(20) THEN PyFloat(H(1, 10, h) - Q(1, 1))
    ELSE IF Deg(20) <= h /\ h <= Deg(30) THEN PyInt(1)
    ELSE IF Deg(30) <= h /\ h <= Deg(35) THEN PyFloat(Q(7, 1) - H(1, 5, h))
    ELSE PyInt(0)

Amante_fuzzy_trapezoidal_orange(h) ==
    IF Deg(30) <= h /\ h <= Deg(34) THEN PyFloat(H(1, 4, h) - Q(15, 2))
    ELSE IF Deg(34) <= h /\ h <= Deg(42) THEN PyInt(1)
    ELSE IF Deg(42) <= h /\ h <= Deg(50) THEN PyFloat(Q(625, 100) - H(13, 100, h))
    ELSE PyInt(0)

Amante_fuzzy_trapezoidal_yellow(h) ==
    IF Deg(44) <= h /\ h <= Deg(50) THEN PyFloat(H(17, 100, h) - Q(733, 100))
    ELSE IF Deg(50) <= h /\ h <= Deg(70) THEN PyInt(1)
    ELSE IF Deg(70) <= h /\ h <= Deg(100) THEN PyFloat(Q(333, 100) - H(3, 100, h))
    ELSE PyInt(0)

Amante_fuzzy_trapezoidal_green(h) ==
    IF Deg(70) <= h /\ h <= Deg(100) THEN PyFloat(H(3, 100, h) - Q(233, 100))
    ELSE IF Deg(100) <= h /\ h <= Deg(140) THEN PyInt(1)
    ELSE IF Deg(140) <= h /\ h <= Deg(160) THEN PyFloat(Q(8, 1) - H(5, 100, h))
    ELSE PyInt(0)

Amante_fuzzy_trapezoidal_cyan(h) ==
    IF Deg(140) <= h /\ h <= Deg(160) THEN PyFloat(H(5, 100, h) - Q(7, 1))
    ELSE IF Deg(160) <= h /\ h <= Deg(200) THEN PyInt(1)
    ELSE IF Deg(200) <= h /\ h <= Deg(220) THEN PyFloat(Q(11, 1) - H(5, 100, h))
    ELSE PyInt(0)

Amante_fuzzy_trapezoidal_blue(h) ==
    IF Deg(200) <= h /\ h <= Deg(220) THEN PyFloat(H(5, 100, h) - Q(10, 1))
    ELSE IF Deg(220) <= h /\ h <= Deg(260) THEN PyInt(1)
    ELSE IF Deg(260) <= h /\ h <= Deg(290) THEN PyFloat(Q(967, 100) - H(3, 100, h))
    ELSE PyInt(0)

Amante_fuzzy_trapezoidal_purple(h) ==
    IF Deg(260) <= h /\ h <= Deg(290) THEN PyFloat(H(3, 100, h) - Q(867, 100))
    ELSE IF Deg(290) <= h /\ h <= Deg(310) THEN PyInt(1)
    ELSE IF Deg(310) <= h /\ h <= Deg(320) THEN PyFloat(Q(32, 1) - H(1, 10, h))
    ELSE PyInt(0)

Amante_fuzzy_trapezoidal_pink(h) ==
    IF Deg(310) <= h /\ h <= Deg(315) THEN PyFloat(H(1, 5, h) - Q(62, 1))
    ELSE IF Deg(315) <= h /\ h <= Deg(335) THEN PyInt(1)
    ELSE IF Deg(335) <= h /\ h <= Deg(350) THEN PyFloat(Q(2333, 100) - H(7, 100, h))
    ELSE PyInt(0)

\* ------------------------------------------------------------ Chamorro
Chamorro_fuzzy_trapezoidal_red(h) ==
    IF (Deg(0) < h /\ h <= Deg(10)) \/ (Deg(350) < h /\ h <= Deg(360)) THEN PyInt(1)
    ELSE IF Deg(10) <= h /\ h <= Deg(20) THEN PyFloat(Q(2, 1) - H(1, 10, h))
    ELSE IF Deg(340) <= h /\ h <= Deg(350) THEN PyFloat(H(1, 10, h) - Q(34, 1))
    ELSE PyFloat(0)

Chamorro_fuzzy_trapezoidal_orange(h) ==
    IF Deg(10) < h /\ h <= Deg(20) THEN PyFloat(H(1, 10, h) - Q(1, 1))
    ELSE IF Deg(20) <= h /\ h <= Deg(40) THEN PyInt(1)
    ELSE IF Deg(40) <= h /\ h <= Deg(50) THEN PyFloat(Q(5, 1) - H(1, 10, h))
    ELSE PyFloat(0)

Chamorro_fuzzy_trapezoidal_yellow(h) ==
    IF Deg(40) <= h /\ h <= Deg(50) THEN PyFloat(H(1, 10, h) - Q(4, 1))
    ELSE IF Deg(50) <= h /\ h <= Deg(70) THEN PyInt(1)
    ELSE IF Deg(70) <= h /\ h <= Deg(80) THEN PyFloat(Q(8, 1) - H(1, 10, h))
    ELSE PyFloat(0)

Chamorro_fuzzy_trapezoidal_yellowgreen(h) ==
    IF Deg(70) <= h /\ h <= Deg(80) THEN PyFloat(H(1, 10, h) - Q(7, 1))
    ELSE IF Deg(80) <= h /\ h <= Deg(100) THEN PyInt(1)
    ELSE IF Deg(100) <= h /\ h <= Deg(110) THEN PyFloat(Q(11, 1) - H(1, 10, h))
    ELSE PyFloat(0)

Chamorro_fuzzy_trapezoidal_green(h) ==
    IF Deg(100) <= h /\ h <= Deg(110) THEN PyFloat(H(1, 10, h) - Q(10, 1))
    ELSE IF Deg(110) <= h /\ h <= Deg(130) THEN PyInt(1)
    ELSE IF Deg(130) <= h /\ h <= Deg(140) THEN PyFloat(Q(14, 1) - H(1, 10, h))
    ELSE PyFloat(0)

Chamorro_fuzzy_trapezoidal_greencyan(h) ==
    IF Deg(130) <= h /\ h <= Deg(140) THEN PyFloat(H(1, 10, h) - Q(13, 1))
    ELSE IF Deg(140) <= h /\ h <= Deg(160) THEN PyInt(1)
    ELSE IF Deg(160) <= h /\ h <= Deg(170) THEN PyFloat(Q(17, 1) - H(1, 10, h))
    ELSE PyFloat(0)

Chamorro_fuzzy_trapezoidal_cyan(h) ==
    IF Deg(160) <= h /\ h <= Deg(170) THEN PyFloat(H(1, 10, h) - Q(16, 1))
    ELSE IF Deg(170) <= h /\ h <= Deg(190) THEN PyInt(1)
    ELSE IF Deg(190) <= h /\ h <= Deg(200) THEN PyFloat(Q(20, 1) - H(1, 10, h))
    ELSE PyFloat(0)

Chamorro_fuzzy_trapezoidal_cyanblue(h) ==
    IF Deg(190) <= h /\ h <= Deg(200) THEN PyFloat(H(1, 10, h) - Q(19, 1))
    ELSE IF Deg(200) <= h /\ h <= Deg(220) THEN PyInt(1)
    ELSE IF Deg(220) <= h /\ h <= Deg(230) THEN PyFloat(Q(23, 1) - H(1, 10, h))
    ELSE PyFloat(0)

Chamorro_fuzzy_trapezoidal_blue(h) ==
    IF Deg(220) <= h /\ h <= Deg(230) THEN PyFloat(H(1, 10, h) - Q(22, 1))
    ELSE IF Deg(230) <= h /\ h <= Deg(250) THEN PyInt(1)
    ELSE IF Deg(250) <= h /\ h <= Deg(260) THEN PyFloat(Q(26, 1) - H(1, 10, h))
    ELSE PyFloat(0)

Chamorro_fuzzy_trapezoidal_bluemagenta(h) ==
    IF Deg(250) <= h /\ h <= Deg(260) THEN PyFloat(H(1, 10, h) - Q(25, 1))
    ELSE IF Deg(260) <= h /\ h <= Deg(280) THEN PyInt(1)
    ELSE IF Deg(280) <= h /\ h <= Deg(290) THEN PyFloat(Q(29, 1) - H(1, 10, h))
    ELSE PyFloat(0)

Chamorro_fuzzy_trapezoidal_magenta(h) ==
    IF Deg(280) <= h /\ h <= Deg(290) THEN PyFloat(H(1, 10, h) - Q(28, 1))
    ELSE IF Deg(290) <= h /\ h <= Deg(310) THEN PyInt(1)
    ELSE IF Deg(310) <= h /\ h <= Deg(320) THEN PyFloat(Q(32, 1) - H(1, 10, h))
    ELSE PyFloat(0)

Chamorro_fuzzy_trapezoidal_magentared(h) ==
    IF Deg(310) <= h /\ h <= Deg(320) THEN PyFloat(H(1, 10, h) - Q(31, 1))
    ELSE IF Deg(320) <= h /\ h <= Deg(340) THEN PyInt(1)
    ELSE IF Deg(340) <= h /\ h <= Deg(350) THEN PyFloat(Q(35, 1) - H(1, 10, h))
    ELSE PyFloat(0)

\* ------------------------------------------------------------ Liu-Wang
LiuWang_fuzzy_trapezoidal_red(h) ==
    IF (Deg(0) <= h /\ h <= Deg(10)) \/ (Deg(330) < h /\ h <= Deg(360)) THEN PyFloat(One)
    ELSE IF Deg(10) < h /\ h <= Deg(20) THEN PyFloat(Q(2, 1) - H(1, 10, h))
    ELSE IF Deg(20) < h /\ h <= Deg(300) THEN PyFloat(0)
    ELSE IF Deg(300) < h /\ h <= Deg(330) THEN PyFloat(H(1, 30, h) - Q(10, 1))
    ELSE PyNone

LiuWang_fuzzy_trapezoidal_orange(h) ==
    IF (Deg(0) <= h /\ h <= Deg(10)) \/ (Deg(55) < h /\ h <= Deg(360)) THEN PyFloat(0)
    ELSE IF Deg(10) < h /\ h <= Deg(20) THEN PyFloat(H(1, 10, h) - Q(1, 1))
    ELSE IF Deg(20) < h /\ h <= Deg(40) THEN PyFloat(One)
    ELSE IF Deg(40) < h /\ h <= Deg(55) THEN PyFloat(Q(11, 3) - H(1, 15, h))
    ELSE PyNone

LiuWang_fuzzy_trapezoidal_yellow(h) ==
    IF (Deg(0) <= h /\ h <= Deg(40)) \/ (Deg(80) < h /\ h <= Deg(360)) THEN PyFloat(0)
    ELSE IF Deg(40) < h /\ h <= Deg(55) THEN PyFloat(H(1, 15, h) - Q(8, 3))
    ELSE IF Deg(55) < h /\ h <= Deg(65) THEN PyFloat(One)
    ELSE IF Deg(65) < h /\ h <= Deg(80) THEN PyFloat(Q(11, 3) - H(1, 15, h))
    ELSE PyNone

LiuWang_fuzzy_trapezoidal_green(h) ==
    IF (Deg(0) <= h /\ h <= Deg(65)) \/ (Deg(170) < h /\ h <= Deg(360)) THEN PyFloat(0)
    ELSE IF Deg(65) < h /\ h <= Deg(80) THEN PyFloat(H(1, 15, h) - Q(8, 3))
    ELSE IF Deg(80) < h /\ h <= Deg(140) THEN PyFloat(One)
    ELSE IF Deg(140) < h /\ h <= Deg(170) THEN PyFloat(Q(17, 3) - H(1, 30, h))
    ELSE PyNone

LiuWang_fuzzy_trapezoidal_cyan(h) ==
    IF (Deg(0) <= h /\ h <= Deg(140)) \/ (Deg(210) < h /\ h <= Deg(360)) THEN PyFloat(0)
    ELSE IF Deg(140) < h /\ h <= Deg(170) THEN PyFloat(H(1, 30, h) - Q(14, 3))
    ELSE IF Deg(170) < h /\ h <= Deg(200) THEN PyFloat(One)
    ELSE IF Deg(200) < h /\ h <= Deg(210) THEN PyFloat(Q(21, 1) - H(1, 10, h))
    ELSE PyNone

LiuWang_fuzzy_trapezoidal_blue(h) ==
    IF (Deg(0) <= h /\ h <= Deg(200)) \/ (Deg(270) < h /\ h <= Deg(360)) THEN PyFloat(0)
    ELSE IF Deg(200) <= h /\ h <= Deg(210) THEN PyFloat(H(1, 10, h) - Q(20, 1))
    ELSE IF Deg(210) <= h /\ h <= Deg(250) THEN PyFloat(One)
    ELSE IF Deg(250) <= h /\ h <= Deg(270) THEN PyFloat(Q(27, 2) - H(1, 20, h))
    ELSE PyNone

LiuWang_fuzzy_trapezoidal_purple(h) ==
    IF (Deg(0) <= h /\ h <= Deg(250)) \/ (Deg(330) < h /\ h <= Deg(360)) THEN PyFloat(0)
    ELSE IF Deg(250) < h /\ h <= Deg(270) THEN PyFloat(H(1, 20, h) - Q(5, 4))
    ELSE IF Deg(270) < h /\ h <= Deg(300) THEN PyFloat(One)
    ELSE IF Deg(300) < h /\ h <= Deg(330) THEN PyFloat(Q(11, 1) - H(1, 30, h))
    ELSE PyNone

\* ------------------------------------------------------------ Shamir
Shamir_fuzzy_triangular_red(h) ==
    IF Deg(0) <= h /\ h <= Deg(30) THEN PyFloat(Q(1, 1) - H(1, 30, h))
    ELSE IF Deg(330) <= h /\ h <= Deg(360) THEN PyFloat(H(1, 30, h) - Q(11, 1))
    ELSE PyFloat(0)

Shamir_fuzzy_triangular_darkorange(h) ==
    IF Deg(0) <= h /\ h <= Deg(30) THEN PyFloat(H(1, 30, h))
    ELSE IF Deg(30) <= h /\ h <= Deg(45) THEN PyFloat(Q(3, 1) - H(1, 15, h))
    ELSE PyFloat(0)

Shamir_fuzzy_triangular_lightorange(h) ==
    IF Deg(30) <= h /\ h <= Deg(45) THEN PyFloat(H(1, 15, h) - Q(2, 1))
    ELSE IF Deg(45) <= h /\ h <= Deg(60) THEN PyFloat(Q(4, 1) - H(1, 15, h))
    ELSE PyFloat(0)

\* a yellow whose falling ramp is 7/2 - h/30
Shamir_fuzzy_triangular_yellow_shifted(h) ==
    IF Deg(45) <= h /\ h <= Deg(60) THEN PyFloat(H(1, 15, h) - Q(3, 1))
    ELSE IF Deg(60) <= h /\ h <= Deg(90) THEN PyFloat(Q(7, 2) - H(1, 30, h))
    ELSE PyFloat(0)

Shamir_fuzzy_triangular_yellow(h) ==
    IF Deg(45) <= h /\ h <= Deg(60) THEN PyFloat(H(1, 15, h) - Q(3, 1))
    ELSE IF Deg(60) <= h /\ h <= Deg(90) THEN PyFloat(Q(3, 1) - H(1, 30, h))
    ELSE PyFloat(0)

Shamir_fuzzy_triangular_lightgreen(h) ==
    IF Deg(60) <= h /\ h <= Deg(75) THEN PyFloat(H(1, 15, h) - Q(4, 1))
    ELSE IF Deg(75) <= h /\ h <= Deg(120) THEN PyFloat(Q(8, 3) - H(1, 45, h))
    ELSE PyFloat(0)

Shamir_fuzzy_triangular_darkgreen(h) ==
    IF Deg(90) <= h /\ h <= Deg(120) THEN PyFloat(H(1, 30, h) - Q(3, 1))
    ELSE IF Deg(120) <= h /\ h <= Deg(180) THEN PyFloat(Q(3, 1) - H(1, 60, h))
    ELSE PyFloat(0)

Shamir_fuzzy_triangular_aqua(h) ==
    IF Deg(120) <= h /\ h <= Deg(180) THEN PyFloat(H(1, 60, h) - Q(2, 1))
    ELSE IF Deg(180) <= h /\ h <= Deg(240) THEN PyFloat(Q(4, 1) - H(1, 60, h))
    ELSE PyFloat(0)

Shamir_fuzzy_triangular_blue(h) ==
    IF Deg(180) <= h /\ h <= Deg(240) THEN PyFloat(H(1, 60, h) - Q(3, 1))
    ELSE IF Deg(240) <= h /\ h <= Deg(300) THEN PyFloat(Q(5, 1) - H(1, 60, h))
    ELSE PyFloat(0)

Shamir_fuzzy_triangular_darkpurple(h) ==
    IF Deg(240) <= h /\ h <= Deg(300) THEN PyFloat(H(1, 60, h) - Q(4, 1))
    ELSE IF Deg(300) <= h /\ h <= Deg(330) THEN PyFloat(Q(11, 1) - H(1, 30, h))
    ELSE PyFloat(0)

Shamir_fuzzy_triangular_lightpurple(h) ==
    IF Deg(300) <= h /\ h <= Deg(330) THEN PyFloat(H(1, 30, h) - Q(10, 1))
    ELSE IF Deg(330) <= h /\ h <= Deg(360) THEN PyFloat(Q(12, 1) - H(1, 30, h))
    ELSE PyFloat(0)

\* ------------------------------------------------------------ models
\* SegmentationAlgorithm: the four enumerants
Methods == {"FUZZY_SET_AMANTE", "FUZZY_SET_CHAMORRO", "FUZZY_SET_LIU", "FUZZY_SET_SHAMIR"}
Models == {"Amante", "Chamorro", "LiuWang", "Shamir"}

\* the number of membership arrays each segment stacks
NumClasses(m) ==
    CASE m = "Amante" -> 9
      [] m = "Chamorro" -> 12
      [] m = "LiuWang" -> 7
      [] m = "Shamir" -> 10

\* the stack order of numpy.stack([...], axis=2) in each segment
AmanteMembership(c, h) ==
    CASE c = 0 -> Amante_fuzzy_trapezoidal_red(h)
      [] c = 1 -> Amante_fuzzy_trapezoidal_brown(h)
      [] c = 2 -> Amante_fuzzy_trapezoidal_orange(h)
      [] c = 3 -> Amante_fuzzy_trapezoidal_yellow(h)
      [] c = 4 -> Amante_fuzzy_trapezoidal_green(h)
      [] c = 5 -> Amante_fuzzy_trapezoidal_cyan(h)
      [] c = 6 -> Amante_fuzzy_trapezoidal_blue(h)
      [] c = 7 -> Amante_fuzzy_trapezoidal_purple(h)
      [] c = 8 -> Amante_fuzzy_trapezoidal_pink(h)

ChamorroMembership(c, h) ==
    CASE c = 0 -> Chamorro_fuzzy_trapezoidal_red(h)
      [] c = 1 -> Chamorro_fuzzy_trapezoidal_orange(h)
      [] c = 2 -> Chamorro_fuzzy_trapezoidal_yellow(h)
      [] c = 3 -> Chamorro_fuzzy_trapezoidal_yellowgreen(h)
      [] c = 4 -> Chamorro_fuzzy_trapezoidal_green(h)
      [] c = 5 -> Chamorro_fuzzy_trapezoidal_greencyan(h)
      [] c = 6 -> Chamorro_fuzzy_trapezoidal_cyan(h)
      [] c = 7 -> Chamorro_fuzzy_trapezoidal_cyanblue(h)
      [] c = 8 -> Chamorro_fuzzy_trapezoidal_blue(h)
      [] c = 9 -> Chamorro_fuzzy_trapezoidal_bluemagenta(h)
      [] c = 10 -> Chamorro_fuzzy_trapezoidal_magenta(h)
      [] c = 11 -> Chamorro_fuzzy_trapezoidal_magentared(h)

LiuWangMembership(c, h) ==
    CASE c = 0 -> LiuWang_fuzzy_trapezoidal_red(h)
      [] c = 1 -> LiuWang_fuzzy_trapezoidal_orange(h)
      [] c = 2 -> LiuWang_fuzzy_trapezoidal_yellow(h)
      [] c = 3 -> LiuWang_fuzzy_trapezoidal_green(h)
      [] c = 4 -> LiuWang_fuzzy_trapezoidal_cyan(h)
      [] c = 5 -> LiuWang_fuzzy_trapezoidal_blue(h)
      [] c = 6 -> LiuWang_fuzzy_trapezoidal_purple(h)

ShamirMembership(c, h) ==
    CASE c = 0 -> Shamir_fuzzy_triangular_red(h)
      [] c = 1 -> Shamir_fuzzy_triangular_darkorange(h)
      [] c = 2 -> Shamir_fuzzy_triangular_lightorange(h)
      [] c = 3 -> Shamir_fuzzy_triangular_yellow(h)
      [] c = 4 -> Shamir_fuzzy_triangular_lightgreen(h)
      [] c = 5 -> Shamir_fuzzy_triangular_darkgreen(h)
      [] c = 6 -> Shamir_fuzzy_triangular_aqua(h)
      [] c = 7 -> Shamir_fuzzy_triangular_blue(h)
      [] c = 8 -> Shamir_fuzzy_triangular_darkpurple(h)
      [] c = 9 -> Shamir_fuzzy_triangular_lightpurple(h)

Membership(m, c, h) ==
    CASE m = "Amante" -> AmanteMembership(c, h)
      [] m = "Chamorro" -> ChamorroMembership(c, h)
      [] m = "LiuWang" -> LiuWangMembership(c, h)
      [] m = "Shamir" -> ShamirMembership(c, h)

\* the degree a membership function returns, as a number
Degree(m, c, h) == Membership(m, c, h).v

\* the storing of a Python float into an int64 array: truncation toward zero
TruncToInt(x) == IF x >= 0 THEN (x \div One) * One ELSE -(((-x) \div One) * One)

\* numpy.vectorize(f, otypes)(h_channel) for class c of model m.  Without
\* otypes the dtype of the whole output array is the type of f at the first
\* element of the input, and every value is stored in that dtype.
Vectorize(m, c, h_channel, otypes) ==
    LET outputs == [i \in DOMAIN h_channel |-> Membership(m, c, h_channel[i])]
        dtype == IF otypes THEN "float" ELSE outputs[1].t
    IN [i \in DOMAIN h_channel |->
           IF dtype = "int" THEN TruncToInt(outputs[i].v) ELSE outputs[i].v]

\* Amante calls numpy.vectorize without otypes, the other three with
\* otypes=[numpy.float]
HasOtypes(m) == m # "Amante"

\* numpy.stack([...], axis=2): memberships[i][c], pixel i, class c
StackMemberships(m, h_channel) ==
    LET arrays == [c \in 0..(NumClasses(m) - 1) |-> Vectorize(m, c, h_channel, HasOtypes(m))]
    IN [i \in DOMAIN h_channel |-> [c \in 0..(NumClasses(m) - 1) |-> arrays[c][i]]]

\* numpy argmax along the class axis: the first index holding the maximum
RECURSIVE ArgMaxFrom(_, _, _, _)
ArgMaxFrom(row, n, i, best) ==
    IF i > n - 1 THEN best
    ELSE ArgMaxFrom(row, n, i + 1, IF row[i] > row[best] THEN i ELSE best)

\* an arg-max that keeps the last index holding the maximum
ArgMaxLast(row, n) ==
    CHOOSE i \in 0..(n - 1) :
        /\ \A j \in 0..(n - 1) : row[j] <= row[i]
        /\ \A j \in (i + 1)..(n - 1) : row[j] < row[i]

ArgMax(row, n) == ArgMaxFrom(row, n, 1, 0)

ArgMaxAxis2(memberships, n) == [i \in DOMAIN memberships |-> ArgMax(memberships[i], n)]

\* ------------------------------------------------------------ palettes
AmantePalette ==
    (0 :> <<255, 33, 36>>) @@ (1 :> <<170, 121, 66>>) @@ (2 :> <<255, 146, 0>>) @@
    (3 :> <<255, 251, 0>>) @@ (4 :> <<0, 255, 0>>) @@ (5 :> <<0, 253, 255>>) @@
    (6 :> <<0, 0, 255>>) @@ (7 :> <<147, 33, 146>>) @@ (8 :> <<255, 64, 255>>)

ChamorroPalette ==
    (0 :> <<255, 33, 36>>) @@ (1 :> <<255, 148, 9>>) @@ (2 :> <<255, 255, 13>>) @@
    (3 :> <<186, 255, 15>>) @@ (4 :> <<6, 155, 9>>) @@ (5 :> <<12, 255, 116>>) @@
    (6 :> <<11, 254, 255>>) @@ (7 :> <<8, 192, 255>>) @@ (8 :> <<0, 0, 255>>) @@
    (9 :> <<92, 8, 253>>) @@ (10 :> <<238, 3, 249>>) @@ (11 :> <<254, 6, 180>>)

\* a Liu-Wang palette without the last class
LiuWangPaletteWithoutPurple ==
    (0 :> <<255, 33, 36>>) @@ (1 :> <<248, 149, 29>>) @@ (2 :> <<239, 233, 17>>) @@
    (3 :> <<105, 189, 69>>) @@ (4 :> <<111, 204, 221>>) @@ (5 :> <<59, 83, 164>>)

LiuWangPalette ==
    (0 :> <<255, 33, 36>>) @@ (1 :> <<248, 149, 29>>) @@ (2 :> <<239, 233, 17>>) @@
    (3 :> <<105, 189, 69>>) @@ (4 :> <<111, 204, 221>>) @@ (5 :> <<59, 83, 164>>) @@
    (6 :> <<158, 80, 159>>)

ShamirPalette ==
    (0 :> <<255, 33, 36>>) @@ (1 :> <<255, 140, 0>>) @@ (2 :> <<255, 165, 0>>) @@
    (3 :> <<255, 255, 0>>) @@ (4 :> <<144, 238, 144>>) @@ (5 :> <<0, 100, 0>>) @@
    (6 :> <<0, 255, 255>>) @@ (7 :> <<0, 0, 255>>) @@ (8 :> <<128, 0, 128>>) @@
    (9 :> <<255, 0, 255>>)

DefaultPalette(m) ==
    CASE m = "Amante" -> AmantePalette
      [] m = "Chamorro" -> ChamorroPalette
      [] m = "LiuWang" -> LiuWangPalette
      [] m = "Shamir" -> ShamirPalette

\* ------------------------------------------------------------ renderer
\* segmentation[:, :, ::-1]
ReverseChannels(colour) == <<colour[3], colour[2], colour[1]>>

\* the loop over class_representation.keys(): each key paints its mask
RECURSIVE PaintClasses(_, _, _, _)
PaintClasses(segmentation, classification, class_representation, keys) ==
    IF keys = {} THEN segmentation
    ELSE LET class_value == CHOOSE k \in keys : \A j \in keys : k <= j
         IN PaintClasses(
                [i \in DOMAIN segmentation |->
                    IF classification[i] = class_value
                    THEN class_representation[class_value]
                    ELSE segmentation[i]],
                classification, class_representation, keys \ {class_value})

\* a renderer that starts from a white canvas instead of numpy.zeros_like
draw_class_segmentation_on_white(n, classification, class_representation) ==
    LET canvas == [i \in 1..n |-> <<255, 255, 255>>]
        segmentation == PaintClasses(canvas, classification, class_representation,
                                     DOMAIN class_representation)
    IN [i \in 1..n |-> ReverseChannels(segmentation[i])]

\* FuzzySetSegmentator.draw_class_segmentation, on an image of n pixels
draw_class_segmentation(n, classification, class_representation) ==
    LET zeros == [i \in 1..n |-> <<0, 0, 0>>]
        segmentation == PaintClasses(zeros, classification, class_representation,
                                     DOMAIN class_representation)
    IN [i \in 1..n |-> ReverseChannels(segmentation[i])]

\* FuzzySetSegmentator.get_red_proportion with the default red_representation:
\* numpy.any(segmentation == [255, 33, 36], axis=-1), as <<count, pixels>>
get_red_proportion(segmentation) ==
    LET red_pixels == {i \in DOMAIN segmentation :
                          \/ segmentation[i][1] = 255
                          \/ segmentation[i][2] = 33
                          \/ segmentation[i][3] = 36}
    IN <<Cardinality(red_pixels), Len(segmentation)>>

\* ------------------------------------------------------------ achromatic overlay
\* p hundredths as a saturation or a value
Pct(p) == p * SVScale

\* chromatic_segmentation[mask, :] = colour
PaintMask(segmentation, mask, colour) ==
    [i \in DOMAIN segmentation |-> IF mask[i] THEN colour ELSE segmentation[i]]

\* FuzzySetSegmentator.__get_white_pixels
get_white_pixels(s_channel, v_channel) ==
    [i \in DOMAIN v_channel |-> v_channel[i] > Pct(81) /\ s_channel[i] <= Pct(14)]

\* a black mask that leaves out the value 0.19 itself
get_black_pixels_strict(v_channel) ==
    [i \in DOMAIN v_channel |-> v_channel[i] < Pct(19)]

\* FuzzySetSegmentator.__get_black_pixels
get_black_pixels(v_channel) ==
    [i \in DOMAIN v_channel |-> v_channel[i] <= Pct(19)]

\* a grey mask without the lower bound on the value
get_gray_pixels_without_floor(s_channel, v_channel) ==
    [i \in DOMAIN v_channel |-> v_channel[i] <= Pct(81) /\ s_channel[i] <= Pct(14)]

\* FuzzySetSegmentator.__get_gray_pixels
get_gray_pixels(s_channel, v_channel) ==
    [i \in DOMAIN v_channel |->
        LET v1 == v_channel[i] <= Pct(81)
            v2 == Pct(19) < v_channel[i]
        IN (v1 /\ v2) /\ s_channel[i] <= Pct(14)]

\* FuzzySetSegmentator.draw_achromatic_classes: black, then white, then grey;
\* it takes and returns the rendered image only
draw_achromatic_classes(s_channel, v_channel, chromatic_segmentation) ==
    LET black_pixels == get_black_pixels(v_channel)
        gray_pixels == get_gray_pixels(s_channel, v_channel)
        white_pixels == get_white_pixels(s_channel, v_channel)
        painted_black == PaintMask(chromatic_segmentation, black_pixels, <<0, 0, 0>>)
        painted_white == PaintMask(painted_black, white_pixels, <<255, 255, 255>>)
    IN PaintMask(painted_white, gray_pixels, <<128, 128, 128>>)

\* a white mask with the saturation strictly below 0.14, as the docstring of
\* __get_white_pixels words it
Amante_get_white_pixels_below_bound(s_channel, v_channel) ==
    [i \in DOMAIN v_channel |-> v_channel[i] > Pct(81) /\ s_channel[i] < Pct(14)]

\* AmanteTrapezoidalSegmentator.__get_white_pixels
Amante_get_white_pixels(s_channel, v_channel) ==
    [i \in DOMAIN v_channel |-> v_channel[i] > Pct(81) /\ s_channel[i] <= Pct(14)]

\* AmanteTrapezoidalSegmentator.__get_black_pixels
Amante_get_black_pixels(v_channel) ==
    [i \in DOMAIN v_channel |-> v_channel[i] <= Pct(19)]

\* AmanteTrapezoidalSegmentator.__get_gray_pixels
Amante_get_gray_pixels(s_channel, v_channel) ==
    [i \in DOMAIN v_channel |->
        LET v1 == v_channel[i] <= Pct(81)
            v2 == Pct(19) < v_channel[i]
        IN (v1 /\ v2) /\ s_channel[i] <= Pct(14)]

\* AmanteTrapezoidalSegmentator.__graw_achromatic_classes
Amante_graw_achromatic_classes(chromatic_segmentation, black_pixels, gray_pixels, white_pixels) ==
    LET painted_black == PaintMask(chromatic_segmentation, black_pixels, <<0, 0, 0>>)
        painted_white == PaintMask(painted_black, white_pixels, <<255, 255, 255>>)
    IN PaintMask(painted_white, gray_pixels, <<128, 128, 128>>)

\* ------------------------------------------------------------ HSV channels
\* 360 * rgb2hsv(...)[:, :, 0] (Amante, Liu-Wang): the hue as it is
SkimageHue(image) == [i \in DOMAIN image |-> image[i].h]

\* 2 * cv2.cvtColor(image, COLOR_BGR2HSV)[:, :, 0] (Chamorro, Shamir): the
\* 8-bit hue is the half angle rounded to an integer in 0..179
Cv2Hue(image) ==
    [i \in DOMAIN image |->
        Deg(2 * (((image[i].h + Deg(1)) \div Deg(2)) % 180))]

SChannel(image) == [i \in DOMAIN image |-> image[i].s]
VChannel(image) == [i \in DOMAIN image |-> image[i].v]

\* ------------------------------------------------------------ Python calls
\* the binding of keyword arguments to a signature: every required
\* parameter is given and every given name is a parameter, else TypeError
Binds(required, optional, given) ==
    required \subseteq given /\ given \subseteq (required \cup optional)

\* an optional keyword argument, or its default
Arg(args, name, default) == IF name \in DOMAIN args THEN args[name] ELSE default

\* SegmentationResult.__init__(segmented_image, segmented_classes, elapsed_time)
SegmentationResultParams == {"segmented_image", "segmented_classes", "elapsed_time"}

NoResult ==
    [kind |-> "none", segmented_image |-> <<>>, segmented_classes |-> <<>>,
     elapsed_time |-> 0]
NoneResult ==
    [kind |-> "None", segmented_image |-> <<>>, segmented_classes |-> <<>>,
     elapsed_time |-> 0]
ImageResult(img) ==
    [kind |-> "ndarray", segmented_image |-> img, segmented_classes |-> <<>>,
     elapsed_time |-> 0]
SegmentationResult(segmented_image, segmented_classes, elapsed_time) ==
    [kind |-> "SegmentationResult", segmented_image |-> segmented_image,
     segmented_classes |-> segmented_classes, elapsed_time |-> elapsed_time]

\* FuzzyPaletteInvalidRepresentation.__init__: the message
FuzzyPaletteInvalidRepresentation(provided_labels, needed_labels) ==
    <<needed_labels, "labels are needed to represent the selected method. Only",
      provided_labels, "are provided.">>

NoOutcome == [status |-> "none", exception |-> "none", message |-> <<>>]
Returned == [status |-> "returned", exception |-> "none", message |-> <<>>]
Raised(exception, message) ==
    [status |-> "raised", exception |-> exception, message |-> message]

\* what a segment call leaves: how it ended, what it returned, and the
\* locals it had computed when it ended
Frame(outcome, result, h_channel, memberships, classification, segmentation, red_proportion) ==
    [outcome |-> outcome, result |-> result, h_channel |-> h_channel,
     memberships |-> memberships, classification |-> classification,
     segmentation |-> segmentation, red_proportion |-> red_proportion]

NoProportion == <<0, 0>>
EmptyFrame(outcome, result) ==
    Frame(outcome, result, <<>>, <<>>, <<>>, <<>>, NoProportion)

\* SegmentationResult(...) called with the keywords `given`
Construct(given, segmented_image, segmented_classes, elapsed_time) ==
    IF Binds(SegmentationResultParams, {}, given)
    THEN [outcome |-> Returned,
          result |-> SegmentationResult(segmented_image, segmented_classes, elapsed_time)]
    ELSE [outcome |-> Raised("TypeError", <<"SegmentationResult.__init__">>),
          result |-> NoResult]

\* ------------------------------------------------------------ segment
\* The chromatic stage every segment starts with: the hue channel, the
\* stacked membership arrays, their arg-max along the class axis and its
\* rendering.
Chromatic(h_channel, memberships, classification, segmentation) ==
    [h_channel |-> h_channel, memberships |-> memberships,
     classification |-> classification, segmentation |-> segmentation]

Render(h_channel, memberships, classification, class_representation) ==
    Chromatic(h_channel, memberships, classification,
              draw_class_segmentation(Len(h_channel), classification,
                                      class_representation))

Classify(m, h_channel, memberships, class_representation) ==
    Render(h_channel, memberships, ArgMaxAxis2(memberships, NumClasses(m)),
           class_representation)

ChromaticStage(m, h_channel, class_representation) ==
    Classify(m, h_channel, StackMemberships(m, h_channel), class_representation)

\* The end of the Amante, Chamorro and Liu-Wang segment:
\* SegmentationResult(segmented_image=, elapsed_time=, red_proportion=)
ConstructWithRedProportion(chromatic, segmentation, red_proportion, made) ==
    Frame(made.outcome, made.result, chromatic.h_channel, chromatic.memberships,
          chromatic.classification, segmentation, red_proportion)

ReturnWithRedProportion(chromatic, segmentation, elapsed_time) ==
    ConstructWithRedProportion(chromatic, segmentation, get_red_proportion(segmentation),
        Construct({"segmented_image", "elapsed_time", "red_proportion"},
                  segmentation, <<>>, elapsed_time))

\* The body of AmanteTrapezoidalSegmentator.segment, entered with the keyword
\* arguments args; t0 and t1 are the two readings of time.time()
AmanteOverlay(chromatic, s_channel, v_channel, args, elapsed_time) ==
    ReturnWithRedProportion(chromatic,
        IF Arg(args, "remove_achromatic_colours", TRUE)
        THEN Amante_graw_achromatic_classes(chromatic.segmentation,
                 Amante_get_black_pixels(v_channel),
                 Amante_get_gray_pixels(s_channel, v_channel),
                 Amante_get_white_pixels(s_channel, v_channel))
        ELSE chromatic.segmentation,
        elapsed_time)

AmanteSegmentFrame(image, class_representation, args, t0, t1) ==
    AmanteOverlay(ChromaticStage("Amante", SkimageHue(image), class_representation),
                  SChannel(image), VChannel(image), args, t0 - t1)

\* The body of ChamorroTrapezoidalSegmentator.segment
ChamorroOverlay(chromatic, s_channel, v_channel, args, elapsed_time) ==
    ReturnWithRedProportion(chromatic,
        IF Arg(args, "remove_achromatic_colours", TRUE)
        THEN draw_achromatic_classes(s_channel, v_channel, chromatic.segmentation)
        ELSE chromatic.segmentation,
        elapsed_time)

ChamorroSegmentFrame(image, class_representation, args, t0, t1) ==
    ChamorroOverlay(ChromaticStage("Chamorro", Cv2Hue(image), class_representation),
                    SChannel(image), VChannel(image), args, t0 - t1)

\* The body of LiuWangTrapezoidalSegmentator.segment; corrected_hue is the hue
\* channel the converter yields for the colour-corrected image
LiuWangReturn(chromatic, elapsed_time) ==
    ReturnWithRedProportion(chromatic, chromatic.segmentation, elapsed_time)

LiuWangSegmentFrame(image, class_representation, args, corrected_hue, t0, t1) ==
    LiuWangReturn(
        ChromaticStage("LiuWang",
                       IF Arg(args, "apply_colour_correction", TRUE)
                       THEN corrected_hue
                       ELSE SkimageHue(image),
                       class_representation),
        t0 - t1)

\* The body of ShamirTriangularSegmentator.segment.  With achromatic removal
\* it calls draw_achromatic_classes(s_channel=, v_channel=,
\* chromatic_segmentation=, colour_classes_segmentation=), which that method's
\* signature does not bind; without, it returns
\* SegmentationResult(segmented_image=, segmented_classes=, elapsed_time=)
ShamirReturn(chromatic, made) ==
    Frame(made.outcome, made.result, chromatic.h_channel, chromatic.memberships,
          chromatic.classification, chromatic.segmentation, NoProportion)

ShamirOverlay(chromatic, args, elapsed_time) ==
    IF Arg(args, "remove_achromatic_colours", TRUE)
       /\ ~Binds({"s_channel", "v_channel", "chromatic_segmentation"}, {},
                 {"s_channel", "v_channel", "chromatic_segmentation",
                  "colour_classes_segmentation"})
    THEN Frame(Raised("TypeError", <<"draw_achromatic_classes">>), NoResult,
               chromatic.h_channel, chromatic.memberships, chromatic.classification,
               chromatic.segmentation, NoProportion)
    ELSE ShamirReturn(chromatic,
             Construct({"segmented_image", "segmented_classes", "elapsed_time"},
                       chromatic.segmentation, chromatic.classification, elapsed_time))

ShamirSegmentFrame(image, class_representation, args, t0, t1) ==
    ShamirOverlay(ChromaticStage("Shamir", Cv2Hue(image), class_representation),
                  args, t0 - t1)

\* ------------------------------------------------------------ state
VARIABLES
    image,                  \* the image the segmentators hold, as HSV pixels
    segmentator,            \* the model segmentator constructed last
    class_representation,   \* its palette
    call,                   \* the last call
    outcome,                \* how it ended
    result,                 \* what it returned
    h_channel,              \* locals of the last segment call
    memberships,
    classification,
    segmentation,
    red_proportion,
    colour_proportion,      \* what the last get_colour_proportion returned
    previous                \* an earlier segment call of the behaviour, remembered

vars == <<image, segmentator, class_representation, call, outcome, result,
          h_channel, memberships, classification, segmentation, red_proportion,
          colour_proportion, previous>>

object == <<image, segmentator, class_representation>>

OptionNames == {"remove_achromatic_colours", "apply_colour_correction"}
\* the keyword arguments of a call: a value for each name given
ArgSets == UNION {[K -> BOOLEAN] : K \in SUBSET OptionNames}
NoArgs == <<>>

Call(op, model, method, args, provided) ==
    [op |-> op, model |-> model, method |-> method, args |-> args, provided |-> provided]
NoCall == Call("none", "none", "none", NoArgs, 0)

SegmentOps == {"segment", "Segmentator.segment"}

\* What is remembered of a segment call: the call, the palette of the object
\* it was made on, the converter's hue channel, and what the call left.
\* NotObserving: nothing is ever remembered; NoObservation: nothing yet.
NotObserving == [observing |-> FALSE, seen |-> FALSE]
NoObservation == [observing |-> TRUE, seen |-> FALSE]
Observation(c, palette, frame) ==
    [observing |-> TRUE, seen |-> TRUE, call |-> c,
     palette |-> IF c.op = "segment" THEN palette ELSE <<>>,
     h_channel |-> frame.h_channel, outcome |-> frame.outcome,
     segmented_image |-> frame.result.segmented_image,
     segmented_classes |-> frame.result.segmented_classes,
     elapsed_time |-> frame.result.elapsed_time,
     classification |-> frame.classification, segmentation |-> frame.segmentation]

\* a segment call is remembered or not, an earlier one kept or replaced
Observations(prev, c, palette, frame) ==
    IF prev.observing /\ c.op \in SegmentOps
    THEN {prev, Observation(c, palette, frame)}
    ELSE {prev}

\* a call whose rendering is painted into the buffer the call before left
LeaveReusingBuffer(frame) ==
    /\ previous' \in Observations(previous, call', class_representation,
                                  [frame EXCEPT !.segmentation =
                                      IF segmentation # <<>> /\ @ # <<>>
                                      THEN segmentation ELSE @])
    /\ outcome' = frame.outcome
    /\ result' = frame.result
    /\ h_channel' = frame.h_channel
    /\ memberships' = frame.memberships
    /\ classification' = frame.classification
    /\ segmentation' = IF segmentation # <<>> /\ frame.segmentation # <<>>
                       THEN segmentation ELSE frame.segmentation
    /\ red_proportion' = frame.red_proportion
    /\ colour_proportion' = NoProportion

\* the frame of a call becomes the state
Leave(frame) ==
    /\ previous' \in Observations(previous, call', class_representation, frame)
    /\ outcome' = frame.outcome
    /\ result' = frame.result
    /\ h_channel' = frame.h_channel
    /\ memberships' = frame.memberships
    /\ classification' = frame.classification
    /\ segmentation' = frame.segmentation
    /\ red_proportion' = frame.red_proportion
    /\ colour_proportion' = NoProportion

Pixel(hue, sat, val) == [h |-> Deg(hue), s |-> Pct(sat), v |-> Pct(val)]
Images(pixels, maxlen) == UNION {[1..n -> pixels] : n \in 1..maxlen}

\* pure red, a hue on the red/brown ramps, mid-grey, a dark pixel
PixelSamples ==
    {Pixel(0, 100, 100), Pixel(18, 100, 100), Pixel(0, 0, 50), Pixel(150, 100, 10)}

\* the hue of the colour-corrected image: unchanged when the three channel
\* means are equal, 0 everywhere when the image has one colour (the
\* correction then yields r = g = b)
CorrectedHues(img) == {SkimageHue(img), [i \in DOMAIN img |-> 0]}

Clock == 0..MaxClock
Ticks == 0..MaxTick

\* a 2 x 2 image, row by row: pure red, pure green, pure blue, mid-grey
PrimariesAndGrey ==
    <<Pixel(0, 100, 100), Pixel(120, 100, 100), Pixel(240, 100, 100), Pixel(0, 0, 50)>>

Init ==
    /\ image \in Images(PixelSamples, MaxPix) \cup {PrimariesAndGrey}
    /\ segmentator = "none"
    /\ class_representation = <<>>
    /\ call = NoCall
    /\ outcome = NoOutcome
    /\ result = NoResult
    /\ h_channel = <<>>
    /\ memberships = <<>>
    /\ classification = <<>>
    /\ segmentation = <<>>
    /\ red_proportion = NoProportion
    /\ colour_proportion = NoProportion
    /\ previous = NotObserving

\* ------------------------------------------------------------ constructors
\* AmanteTrapezoidalSegmentator(image)
AmanteInit ==
    /\ segmentator' = "Amante"
    /\ class_representation' = AmantePalette
    /\ call' = Call("__init__", "Amante", "none", NoArgs, 0)
    /\ Leave(EmptyFrame(Returned, NoResult))
    /\ UNCHANGED image

\* ChamorroTrapezoidalSegmentator(image)
ChamorroInit ==
    /\ segmentator' = "Chamorro"
    /\ class_representation' = ChamorroPalette
    /\ call' = Call("__init__", "Chamorro", "none", NoArgs, 0)
    /\ Leave(EmptyFrame(Returned, NoResult))
    /\ UNCHANGED image

\* LiuWangTrapezoidalSegmentator(image)
LiuWangInit ==
    /\ segmentator' = "LiuWang"
    /\ class_representation' = LiuWangPalette
    /\ call' = Call("__init__", "LiuWang", "none", NoArgs, 0)
    /\ Leave(EmptyFrame(Returned, NoResult))
    /\ UNCHANGED image

\* a caller's palette: keys `keys`, each with a colour of its own
CustomPalette(keys) == [k \in keys |-> <<10 * k + 1, 10 * k + 2, 10 * k + 3>>]

\* the labels_representation argument: omitted (None), or a dict of n = 0 ..
\* MaxLabels entries with the keys 0 .. n-1, or a dict with the ten keys 1 .. 10
NoLabels == [given |-> FALSE, dict |-> <<>>]
LabelsRepresentations ==
    {NoLabels}
    \cup {[given |-> TRUE, dict |-> CustomPalette(0..(n - 1))] : n \in 0..MaxLabels}
    \cup {[given |-> TRUE, dict |-> CustomPalette(1..10)]}

\* `not labels_representation`: None and the empty dict are both falsy
Falsy(labels_representation) ==
    ~labels_representation.given \/ DOMAIN labels_representation.dict = {}

\* ShamirTriangularSegmentator(image, labels_representation)
ShamirInit(labels_representation) ==
    LET labels == IF Falsy(labels_representation)
                  THEN ShamirPalette
                  ELSE labels_representation.dict
        provided == Cardinality(DOMAIN labels_representation.dict)
    IN /\ call' = Call("__init__", "Shamir", "none", NoArgs,
                       IF labels_representation.given THEN provided ELSE -1)
       /\ IF Cardinality(DOMAIN labels) # 10
          THEN /\ Leave(EmptyFrame(
                      Raised("FuzzyPaletteInvalidRepresentation",
                             FuzzyPaletteInvalidRepresentation(Cardinality(DOMAIN labels), 10)),
                      NoResult))
               /\ UNCHANGED object
          ELSE /\ segmentator' = "Shamir"
               /\ class_representation' = labels
               /\ Leave(EmptyFrame(Returned, NoResult))
               /\ UNCHANGED image

\* ------------------------------------------------------------ segment calls
RejectedCall(name) == EmptyFrame(Raised("TypeError", <<name>>), NoResult)

\* AmanteTrapezoidalSegmentator.segment(**args)
AmanteSegment(args) ==
    /\ segmentator = "Amante"
    /\ call' = Call("segment", "Amante", "none", args, 0)
    /\ IF Binds({}, {"remove_achromatic_colours"}, DOMAIN args)
       THEN \E t0 \in Clock, d \in Ticks :
               Leave(AmanteSegmentFrame(image, class_representation, args, t0, t0 + d))
       ELSE Leave(RejectedCall("segment"))
    /\ UNCHANGED object

\* a Chamorro segment whose overlay paints the black pixels into the stored
\* image as well
ChamorroSegmentPaintingImage(args) ==
    /\ segmentator = "Chamorro"
    /\ call' = Call("segment", "Chamorro", "none", args, 0)
    /\ IF Binds({}, {"remove_achromatic_colours"}, DOMAIN args)
       THEN \E t0 \in Clock, d \in Ticks :
               Leave(ChamorroSegmentFrame(image, class_representation, args, t0, t0 + d))
       ELSE Leave(RejectedCall("segment"))
    /\ image' = [i \in DOMAIN image |->
                    IF get_black_pixels(VChannel(image))[i]
                    THEN Pixel(0, 0, 0) ELSE image[i]]
    /\ UNCHANGED <<segmentator, class_representation>>

\* ChamorroTrapezoidalSegmentator.segment(**args)
ChamorroSegment(args) ==
    /\ segmentator = "Chamorro"
    /\ call' = Call("segment", "Chamorro", "none", args, 0)
    /\ IF Binds({}, {"remove_achromatic_colours"}, DOMAIN args)
       THEN \E t0 \in Clock, d \in Ticks :
               Leave(ChamorroSegmentFrame(image, class_representation, args, t0, t0 + d))
       ELSE Leave(RejectedCall("segment"))
    /\ UNCHANGED object

\* LiuWangTrapezoidalSegmentator.segment(**args)
LiuWangSegment(args) ==
    /\ segmentator = "LiuWang"
    /\ call' = Call("segment", "LiuWang", "none", args, 0)
    /\ IF Binds({}, {"apply_colour_correction"}, DOMAIN args)
       THEN \E hc \in CorrectedHues(image), t0 \in Clock, d \in Ticks :
               Leave(LiuWangSegmentFrame(image, class_representation, args, hc, t0, t0 + d))
       ELSE Leave(RejectedCall("segment"))
    /\ UNCHANGED object

\* ShamirTriangularSegmentator.segment(**args)
ShamirSegment(args) ==
    /\ segmentator = "Shamir"
    /\ call' = Call("segment", "Shamir", "none", args, 0)
    /\ IF Binds({}, {"remove_achromatic_colours"}, DOMAIN args)
       THEN \E t0 \in Clock, d \in Ticks :
               Leave(ShamirSegmentFrame(image, class_representation, args, t0, t0 + d))
       ELSE Leave(RejectedCall("segment"))
    /\ UNCHANGED object

\* ------------------------------------------------------------ entry point
UnknownSelectors == {"FUZZY_SET_OTHER", "None"}
Selectors == Methods \cup UnknownSelectors

\* The body of Segmentator.segment(method): the if/elif chain over the four
\* enumerants, each branch constructing the model segmentator on the stored
\* image and calling its segment() without arguments; no else branch
SegmentatorSegmentFrame(img, method, corrected_hue, t0, t1) ==
    IF method = "FUZZY_SET_AMANTE"
    THEN AmanteSegmentFrame(img, AmantePalette, NoArgs, t0, t1)
    ELSE IF method = "FUZZY_SET_CHAMORRO"
    THEN ChamorroSegmentFrame(img, ChamorroPalette, NoArgs, t0, t1)
    ELSE IF method = "FUZZY_SET_LIU"
    THEN LiuWangSegmentFrame(img, LiuWangPalette, NoArgs, corrected_hue, t0, t1)
    ELSE IF method = "FUZZY_SET_SHAMIR"
    THEN ShamirSegmentFrame(img, ShamirPalette, NoArgs, t0, t1)
    ELSE EmptyFrame(Returned, NoneResult)

\* Segmentator.segment(method=method, **args)
SegmentatorSegment(method, args) ==
    /\ call' = Call("Segmentator.segment", "none", method, args, 0)
    /\ IF Binds({"method"}, {}, {"method"} \cup DOMAIN args)
       THEN \E hc \in CorrectedHues(image), t0 \in Clock, d \in Ticks :
               Leave(SegmentatorSegmentFrame(image, method, hc, t0, t0 + d))
       ELSE Leave(RejectedCall("Segmentator.segment"))
    /\ UNCHANGED object

\* the model segmentators, constructed and called directly
Next ==
    \/ AmanteInit
    \/ ChamorroInit
    \/ LiuWangInit
    \/ \E labels_representation \in LabelsRepresentations : ShamirInit(labels_representation)
    \/ \E args \in ArgSets : AmanteSegment(args)
    \/ \E args \in ArgSets : ChamorroSegment(args)
    \/ \E args \in ArgSets : LiuWangSegment(args)
    \/ \E args \in ArgSets : ShamirSegment(args)

Spec == Init /\ [][Next]_vars

\* the Segmentator entry point on the stored image
NextEntry == \E method \in Selectors, args \in ArgSets : SegmentatorSegment(method, args)

SpecEntry == Init /\ [][NextEntry]_vars

\* ------------------------------------------------------------ membership library
\* every hue of the grid, 360 included, as a one-pixel hue channel
HueGrid == 0..Deg(360)

InitMembership ==
    /\ image \in {<<[h |-> hue, s |-> Pct(100), v |-> Pct(100)]>> : hue \in HueGrid}
    /\ segmentator = "none"
    /\ class_representation = <<>>
    /\ call = NoCall
    /\ outcome = NoOutcome
    /\ result = NoResult
    /\ h_channel = <<>>
    /\ memberships = <<>>
    /\ classification = <<>>
    /\ segmentation = <<>>
    /\ red_proportion = NoProportion
    /\ colour_proportion = NoProportion
    /\ previous = NotObserving

\* every membership function of model m applied to each hue, in stack order
EvaluateAll(m, hues) ==
    [i \in DOMAIN hues |-> [c \in 0..(NumClasses(m) - 1) |-> Degree(m, c, hues[i])]]

Evaluate(m) ==
    /\ call' = Call("evaluate", m, "none", NoArgs, 0)
    /\ Leave(Frame(Returned, NoResult, SkimageHue(image),
                   EvaluateAll(m, SkimageHue(image)), <<>>, <<>>, NoProportion))
    /\ UNCHANGED object

NextMembership == \E m \in Models : Evaluate(m)

SpecMembership == InitMembership /\ [][NextMembership]_vars

\* ------------------------------------------------------------ base-class methods
\* saturations around 0.14 and every value of the grid, as one-pixel images;
\* and images of 1 .. MaxPix pixels of one colour
SaturationSamples == {0, Pct(14) - 1, Pct(14), Pct(14) + 1, Pct(100)}
ValueGrid == 0..Pct(100)

InitDraw ==
    /\ image \in {<<[h |-> 0, s |-> sat, v |-> val]>> :
                     sat \in SaturationSamples, val \in ValueGrid}
                 \cup Images({Pixel(0, 100, 100)}, MaxPix)
    /\ segmentator = "none"
    /\ class_representation = <<>>
    /\ call = NoCall
    /\ outcome = NoOutcome
    /\ result = NoResult
    /\ h_channel = <<>>
    /\ memberships = <<>>
    /\ classification = <<>>
    /\ segmentation = <<>>
    /\ red_proportion = NoProportion
    /\ colour_proportion = NoProportion
    /\ previous = NotObserving

\* palettes a caller may hand to the base class: a model's, a partial one,
\* one with gaps, an empty one
PaletteSamples == {ChamorroPalette, CustomPalette(0..1), CustomPalette({1, 3}), <<>>}
LabelSamples == {-1, 0, 1, 2, 3}

\* FuzzySetSegmentator(image, class_representation)
FuzzySetSegmentatorInit(palette) ==
    /\ segmentator' = "FuzzySetSegmentator"
    /\ class_representation' = palette
    /\ call' = Call("__init__", "FuzzySetSegmentator", "none", NoArgs, 0)
    /\ Leave(EmptyFrame(Returned, NoResult))
    /\ UNCHANGED image

\* self.draw_class_segmentation(classification)
DrawClassSegmentation(labels) ==
    /\ segmentator # "none"
    /\ call' = Call("draw_class_segmentation", segmentator, "none", NoArgs, 0)
    /\ Leave(Frame(Returned,
                   ImageResult(draw_class_segmentation(Len(image), labels, class_representation)),
                   <<>>, <<>>, labels,
                   draw_class_segmentation(Len(image), labels, class_representation),
                   NoProportion))
    /\ UNCHANGED object

\* FuzzySetSegmentator.draw_achromatic_classes(s_channel, v_channel,
\* chromatic_segmentation) on the rendering at hand, which it paints in place
\* and returns
DrawAchromaticClasses ==
    /\ segmentation # <<>>
    /\ call' = Call("draw_achromatic_classes", "FuzzySetSegmentator", "none", NoArgs, 0)
    /\ Leave(Frame(Returned,
                   ImageResult(draw_achromatic_classes(SChannel(image), VChannel(image),
                                                       segmentation)),
                   h_channel, memberships, classification,
                   draw_achromatic_classes(SChannel(image), VChannel(image), segmentation),
                   red_proportion))
    /\ UNCHANGED object

\* AmanteTrapezoidalSegmentator.__graw_achromatic_classes(chromatic_segmentation,
\* black_pixels, gray_pixels, white_pixels) on the rendering at hand, with the
\* masks of the class's own __get_black_pixels, __get_gray_pixels and
\* __get_white_pixels, as its segment calls it
AmanteGrawAchromaticClasses ==
    /\ segmentation # <<>>
    /\ call' = Call("__graw_achromatic_classes", "Amante", "none", NoArgs, 0)
    /\ Leave(Frame(Returned,
                   ImageResult(Amante_graw_achromatic_classes(segmentation,
                       Amante_get_black_pixels(VChannel(image)),
                       Amante_get_gray_pixels(SChannel(image), VChannel(image)),
                       Amante_get_white_pixels(SChannel(image), VChannel(image)))),
                   h_channel, memberships, classification,
                   Amante_graw_achromatic_classes(segmentation,
                       Amante_get_black_pixels(VChannel(image)),
                       Amante_get_gray_pixels(SChannel(image), VChannel(image)),
                       Amante_get_white_pixels(SChannel(image), VChannel(image))),
                   red_proportion))
    /\ UNCHANGED object

NextDraw ==
    \/ \E palette \in PaletteSamples : FuzzySetSegmentatorInit(palette)
    \/ \E labels \in [1..Len(image) -> LabelSamples] : DrawClassSegmentation(labels)
    \/ DrawAchromaticClasses
    \/ AmanteGrawAchromaticClasses

SpecDraw == InitDraw /\ [][NextDraw]_vars

\* ------------------------------------------------------------ membership degrees
ClassesOf(m) == 0..(NumClasses(m) - 1)

\* C1: for every hue h of [0, 360], every membership function of each of the
\* four models yields a degree d with 0 <= d <= 1.
C1_DegreesInUnitInterval ==
    call.op = "evaluate" =>
        \A c \in ClassesOf(call.model) :
            0 <= memberships[1][c] /\ memberships[1][c] <= One

\* C2: for every hue h of [0, 360), at least one membership function of each
\* model yields a non-zero degree.
C2_SomeDegreeNonZero ==
    (call.op = "evaluate" /\ h_channel[1] < Deg(360)) =>
        \E c \in ClassesOf(call.model) : memberships[1][c] # 0

\* ------------------------------------------------------------ classification
\* label c is an arg-max of model m's degrees at hue h, and the smallest one
StableArgMax(m, c, h) ==
    /\ c \in ClassesOf(m)
    /\ \A k \in ClassesOf(m) :
          /\ Degree(m, k, h) <= Degree(m, c, h)
          /\ k < c => Degree(m, k, h) < Degree(m, c, h)

\* C3: a segment call labels every pixel with a class whose membership degree
\* is maximal among the model's functions at the pixel's hue, and among equal
\* maxima with the one of smallest index.
C3_LabelIsStableArgMax ==
    (call.op = "segment" /\ classification # <<>>) =>
        \A i \in DOMAIN classification :
            StableArgMax(call.model, classification[i], h_channel[i])

\* ------------------------------------------------------------ segment results
\* C4: for each of the four models, segment with its default options on a
\* valid image completes without error and returns a SegmentationResult
\* holding the segmented image, the class-label map and the elapsed time.
C4_DefaultSegmentReturnsResult ==
    (call.op = "Segmentator.segment" /\ call.method \in Methods /\ call.args = NoArgs) =>
        /\ outcome = Returned
        /\ result.kind = "SegmentationResult"
        /\ Len(result.segmented_image) = Len(image)
        /\ Len(result.segmented_classes) = Len(image)

\* ------------------------------------------------------------ achromatic overlay
OverlayOps == {"draw_achromatic_classes", "__graw_achromatic_classes"}

C6_LabelMapCarriesAchromaticLabels ==
    (/\ call.op = "segment"
     /\ call.model \in {"Amante", "Chamorro", "Shamir"}
     /\ DOMAIN call.args \subseteq {"remove_achromatic_colours"}
     /\ Arg(call.args, "remove_achromatic_colours", TRUE)) =>
        /\ outcome = Returned
        /\ DOMAIN result.segmented_classes = DOMAIN image
        /\ \A i \in DOMAIN image :
              result.segmented_classes[i] =
                  IF image[i].v <= Pct(19) THEN -1
                  ELSE IF image[i].s > Pct(14) THEN classification[i]
                  ELSE IF image[i].v > Pct(81) THEN -2
                  ELSE -3

\* ------------------------------------------------------------ entry point options
\* the model each enumerant selects
SelectedModel(method) ==
    CASE method = "FUZZY_SET_AMANTE" -> "Amante"
      [] method = "FUZZY_SET_CHAMORRO" -> "Chamorro"
      [] method = "FUZZY_SET_LIU" -> "LiuWang"
      [] method = "FUZZY_SET_SHAMIR" -> "Shamir"

\* C7: the segment entry point accepts the options remove_achromatic_colours
\* and apply_colour_correction with a recognised selector, and
\* remove_achromatic_colours=False yields the chromatic rendering without
\* the overlay.
C7_EntryPointAcceptsOptions ==
    (call.op = "Segmentator.segment" /\ call.method \in Methods) =>
        /\ outcome # Raised("TypeError", <<"Segmentator.segment">>)
        /\ ~Arg(call.args, "remove_achromatic_colours", TRUE) =>
              /\ DOMAIN classification = DOMAIN image
              /\ segmentation =
                    draw_class_segmentation(Len(image), classification,
                                            DefaultPalette(SelectedModel(call.method)))

\* C8: segment with a selector that is not one of the four enumerants fails
\* with an error; it never returns normally.
C8_UnknownSelectorFails ==
    (call.op = "Segmentator.segment" /\ call.method \notin Methods) =>
        outcome.status = "raised"

\* ------------------------------------------------------------ palettes
\* C9: a caller-defined Shamir palette of n entries, for every n >= 0 other
\* than 10, raises FuzzyPaletteInvalidRepresentation in the constructor, before
\* any classification work, with a message naming the 10 needed and the n
\* provided.
C9_WrongPaletteSizeRaises ==
    (/\ call.op = "__init__"
     /\ call.model = "Shamir"
     /\ call.provided >= 0
     /\ call.provided # 10) =>
        /\ outcome.status = "raised"
        /\ outcome.exception = "FuzzyPaletteInvalidRepresentation"
        /\ outcome.message[1] = 10
        /\ outcome.message[3] = call.provided
        /\ classification = <<>>

\* C10: draw_class_segmentation paints every pixel whose label is a key of the
\* palette with that key's colour (an RGB triple, written in the image's
\* channel order) and leaves every other pixel at (0,0,0), raising nothing.
C10_RenderPaintsMappedLabelsOnly ==
    call.op = "draw_class_segmentation" =>
        /\ outcome = Returned
        /\ result.segmented_image = segmentation
        /\ DOMAIN segmentation = DOMAIN image
        /\ \A i \in DOMAIN image :
              segmentation[i] =
                  IF classification[i] \in DOMAIN class_representation
                  THEN ReverseChannels(class_representation[classification[i]])
                  ELSE <<0, 0, 0>>

\* a two-pixel rendering under the palette with keys 1 and 3: label 1 painted,
\* label 2 left at zero
C10_Witness ==
    /\ call.op = "draw_class_segmentation"
    /\ class_representation = CustomPalette({1, 3})
    /\ classification = <<1, 2>>
    /\ segmentation = <<<<13, 12, 11>>, <<0, 0, 0>>>>

\* ------------------------------------------------------------ SegmentationResult
\* class-label maps of 1 .. MaxSide rows and columns, as sequences of rows
MaxSide == 2
ResultLabels == {0, 1}
LabelMaps ==
    UNION {[1..rows -> [1..cols -> ResultLabels]] : rows \in 1..MaxSide, cols \in 1..MaxSide}

\* the colour_label argument: omitted (None) or an integer
NoLabel == [given |-> FALSE, label |-> 0]
ColourLabels ==
    {NoLabel} \cup {[given |-> TRUE, label |-> l] : l \in ResultLabels \cup {-3}}

RECURSIVE SumSeq(_)
SumSeq(seq) == IF seq = <<>> THEN 0 ELSE Head(seq) + SumSeq(Tail(seq))

\* a proportion that ignores the colour_label argument and counts label 0
get_colour_proportion_of_zero(segmented_classes, colour_label) ==
    LET colour_pixels == [r \in DOMAIN segmented_classes |->
                             [c \in DOMAIN segmented_classes[r] |->
                                 segmented_classes[r][c] = 0]]
        row_sums == [r \in DOMAIN colour_pixels |->
                        SumSeq([c \in DOMAIN colour_pixels[r] |->
                                   IF colour_pixels[r][c] THEN 1 ELSE 0])]
    IN <<SumSeq(row_sums), Len(colour_pixels) * Len(colour_pixels[1])>>

\* SegmentationResult.get_colour_proportion: colour_pixels.sum() over
\* shape[0] * shape[1], as <<count, pixels>>
get_colour_proportion(segmented_classes, colour_label) ==
    LET label == IF colour_label.given THEN colour_label.label ELSE 0
        colour_pixels == [r \in DOMAIN segmented_classes |->
                             [c \in DOMAIN segmented_classes[r] |->
                                 segmented_classes[r][c] = label]]
        row_sums == [r \in DOMAIN colour_pixels |->
                        SumSeq([c \in DOMAIN colour_pixels[r] |->
                                   IF colour_pixels[r][c] THEN 1 ELSE 0])]
    IN <<SumSeq(row_sums), Len(colour_pixels) * Len(colour_pixels[1])>>

InitResult ==
    /\ image = <<>>
    /\ segmentator = "none"
    /\ class_representation = <<>>
    /\ call = NoCall
    /\ outcome = NoOutcome
    /\ result = NoResult
    /\ h_channel = <<>>
    /\ memberships = <<>>
    /\ classification = <<>>
    /\ segmentation = <<>>
    /\ red_proportion = NoProportion
    /\ colour_proportion = NoProportion
    /\ previous = NotObserving

\* SegmentationResult(segmented_image=, segmented_classes=, elapsed_time=)
SegmentationResultInit(segmented_classes) ==
    /\ call' = Call("SegmentationResult.__init__", "none", "none", NoArgs, 0)
    /\ outcome' = Returned
    /\ result' = SegmentationResult(<<>>, segmented_classes, 0)
    /\ colour_proportion' = NoProportion
    /\ UNCHANGED <<object, h_channel, memberships, classification, segmentation,
                   red_proportion, previous>>

\* result.get_colour_proportion(colour_label)
GetColourProportion(colour_label) ==
    /\ result.kind = "SegmentationResult"
    /\ call' = Call("get_colour_proportion", "none", "none",
                    IF colour_label.given
                    THEN [colour_label |-> colour_label.label]
                    ELSE NoArgs,
                    0)
    /\ outcome' = Returned
    /\ colour_proportion' = get_colour_proportion(result.segmented_classes, colour_label)
    /\ UNCHANGED <<object, result, h_channel, memberships, classification, segmentation,
                   red_proportion, previous>>

NextResult ==
    \/ \E segmented_classes \in LabelMaps : SegmentationResultInit(segmented_classes)
    \/ \E colour_label \in ColourLabels : GetColourProportion(colour_label)

SpecResult == InitResult /\ [][NextResult]_vars

\* the pixels of a label map that carry a label
PixelsWithLabel(segmented_classes, label) ==
    {rc \in (DOMAIN segmented_classes) \X (DOMAIN segmented_classes[1]) :
        segmented_classes[rc[1]][rc[2]] = label}

\* C11: get_colour_proportion(label) is the number of pixels of the label map
\* equal to label over the number of pixels, label being 0 when omitted; on a
\* map with a quarter of its pixels at label 0 it is exactly 1/4.
C11_ColourProportion ==
    call.op = "get_colour_proportion" =>
        LET label == Arg(call.args, "colour_label", 0)
            pixels == Len(result.segmented_classes) * Len(result.segmented_classes[1])
            count == Cardinality(PixelsWithLabel(result.segmented_classes, label))
        IN /\ colour_proportion = <<count, pixels>>
           /\ (label = 0 /\ 4 * count = pixels) =>
                  4 * colour_proportion[1] = colour_proportion[2]

\* a 2 x 2 map with one pixel at label 0, asked without a label: 1/4
C11_Witness ==
    /\ call.op = "get_colour_proportion"
    /\ call.args = NoArgs
    /\ result.segmented_classes = <<<<1, 1>>, <<0, 1>>>>
    /\ colour_proportion = <<1, 4>>

\* ------------------------------------------------------------ colour correction
\* The stored image as 8-bit BGR pixels <<b, g, r>>, each channel one of the
\* levels 0 .. ChanScale of full scale; img_as_float makes level k the value
\* k / ChanScale.  A float of the corrected image is a quotient of integers
\* or NaN.
ChanScale == 2
Levels == 0..ChanScale
BGRImages == Images(Levels \X Levels \X Levels, MaxPix)

Float(num, den) == [nan |-> FALSE, num |-> num, den |-> den]
NaN == [nan |-> TRUE, num |-> 0, den |-> 1]

\* FuzzySetSegmentator.get_float_image: img_as_float(self.image[:, :, ::-1]),
\* in units of 1 / ChanScale
get_float_image(bgr_image) == [i \in DOMAIN bgr_image |-> ReverseChannels(bgr_image[i])]

\* image[:, :, c]
Channel(float_image, c) == [i \in DOMAIN float_image |-> float_image[i][c]]

\* (balance_average / numpy.mean(channel)) * x without the clamp
Unclamped(total, channel_sum, x) ==
    IF channel_sum = 0 THEN NaN
    ELSE Float(total * x, 3 * channel_sum * ChanScale)

\* (balance_average / numpy.mean(channel)) * x, then balanced[balanced > 1] = 1.
\* With total the sum of the three channel sums, the factor is
\* total / (3 * channel_sum); a channel of sum 0 has the factor inf (or nan
\* for a black image) and only zeros, and inf * 0 = nan, which the clamp
\* leaves (nan > 1 is false).
Balanced(total, channel_sum, x) ==
    IF channel_sum = 0 THEN NaN
    ELSE IF total * x > 3 * channel_sum * ChanScale THEN Float(1, 1)
    ELSE Float(total * x, 3 * channel_sum * ChanScale)

BalanceChannel(total, channel) ==
    [i \in DOMAIN channel |-> Balanced(total, SumSeq(channel), channel[i])]

StackChannels(red, green, blue) == [i \in DOMAIN red |-> <<red[i], green[i], blue[i]>>]

BalanceChannels(total, red_channel, green_channel, blue_channel) ==
    StackChannels(BalanceChannel(total, red_channel),
                  BalanceChannel(total, green_channel),
                  BalanceChannel(total, blue_channel))

SplitAndBalance(red_channel, green_channel, blue_channel) ==
    BalanceChannels(SumSeq(red_channel) + SumSeq(green_channel) + SumSeq(blue_channel),
                    red_channel, green_channel, blue_channel)

\* LiuWangTrapezoidalSegmentator.__apply_color_correction
apply_color_correction(float_image) ==
    SplitAndBalance(Channel(float_image, 1), Channel(float_image, 2),
                    Channel(float_image, 3))

InitCorrection ==
    /\ image \in BGRImages
    /\ segmentator = "none"
    /\ class_representation = <<>>
    /\ call = NoCall
    /\ outcome = NoOutcome
    /\ result = NoResult
    /\ h_channel = <<>>
    /\ memberships = <<>>
    /\ classification = <<>>
    /\ segmentation = <<>>
    /\ red_proportion = NoProportion
    /\ colour_proportion = NoProportion
    /\ previous = NotObserving

\* self.__apply_color_correction() of a Liu-Wang segmentator
ApplyColorCorrection ==
    /\ segmentator = "LiuWang"
    /\ call' = Call("__apply_color_correction", "LiuWang", "none", NoArgs, 0)
    /\ Leave(EmptyFrame(Returned,
                        ImageResult(apply_color_correction(get_float_image(image)))))
    /\ UNCHANGED object

NextCorrection ==
    \/ LiuWangInit
    \/ ApplyColorCorrection

SpecCorrection == InitCorrection /\ [][NextCorrection]_vars

\* the sum of a sequence of floats that are not NaN, as <<num, den>>
RECURSIVE RatSum(_)
RatSum(floats) ==
    IF floats = <<>> THEN <<0, 1>>
    ELSE LET rest == RatSum(Tail(floats))
         IN <<Head(floats).num * rest[2] + rest[1] * Head(floats).den,
              Head(floats).den * rest[2]>>

\* channel c (1 red, 2 green, 3 blue) of the float image before the
\* correction, the sum of the three channels, and channel c after
InputChannel(c) == [i \in DOMAIN image |-> image[i][4 - c]]
InputTotal == SumSeq(InputChannel(1)) + SumSeq(InputChannel(2)) + SumSeq(InputChannel(3))
CorrectedChannel(c) == [i \in DOMAIN image |-> result.segmented_image[i][c]]
HasNaN(c) == \E i \in DOMAIN image : CorrectedChannel(c)[i].nan
\* some value of channel c exceeds 1 when rescaled by K / mean(c)
Clamps(c) ==
    \E i \in DOMAIN image :
        InputTotal * InputChannel(c)[i] > 3 * SumSeq(InputChannel(c)) * ChanScale
\* the mean of corrected channel c against K = InputTotal / (3 * pixels * ChanScale)
MeanVersusK(c) ==
    LET sum == RatSum(CorrectedChannel(c))
    IN sum[1] * 3 * ChanScale - InputTotal * sum[2]

C13_CorrectedValuesInUnitInterval ==
    call.op = "__apply_color_correction" =>
        \A c \in 1..3 : \A i \in DOMAIN image :
            LET y == CorrectedChannel(c)[i]
            IN /\ ~y.nan
               /\ 0 <= y.num /\ y.num <= y.den
               /\ IF InputTotal * InputChannel(c)[i] > 3 * SumSeq(InputChannel(c)) * ChanScale
                  THEN y.num = y.den
                  ELSE y.num * 3 * SumSeq(InputChannel(c)) * ChanScale
                           = InputTotal * InputChannel(c)[i] * y.den

\* ------------------------------------------------------------ end to end
\* C14: the Amante segment, achromatic removal enabled, of the 2 x 2 image of
\* pure red, pure green, pure blue and mid-grey returns the labels
\* 0, 4, 6, -3 and the image of Amante's red, green and blue and (128,128,128).
C14_AmantePrimariesAndGrey ==
    (/\ call.op = "segment"
     /\ call.model = "Amante"
     /\ image = PrimariesAndGrey
     /\ DOMAIN call.args \subseteq {"remove_achromatic_colours"}
     /\ Arg(call.args, "remove_achromatic_colours", TRUE)) =>
        /\ outcome = Returned
        /\ result.segmented_classes = <<0, 4, 6, -3>>
        /\ result.segmented_image =
              <<ReverseChannels(AmantePalette[0]), ReverseChannels(AmantePalette[4]),
                ReverseChannels(AmantePalette[6]), <<128, 128, 128>>>>

\* ------------------------------------------------------------ boundaries
\* the degree of Amante's red at the hue evaluated, and h/10 in its units
AmanteRedDegree == memberships[1][0]
TenthOfHue == 90 * h_channel[1]

\* C15 as stated: Amante's red is 1 at h = 10 and just above 10 it is the
\* ramp value 2 - h/10, a value just below 2 (1.99999 at h = 10.0001, that is
\* 2 - (h - 10)/10).
C15_AmanteRedJustAboveTen ==
    (call.op = "evaluate" /\ call.model = "Amante") =>
        /\ h_channel[1] = Deg(10) => AmanteRedDegree = One
        /\ h_channel[1] = Deg(10) + 1 =>
              /\ AmanteRedDegree = 2 * One - TenthOfHue
              /\ AmanteRedDegree = 2 * One - 90 * (h_channel[1] - Deg(10))

\* C15 amended: Amante's red is 1 at h = 10 and on (10, 20] it is the ramp
\* value 2 - h/10, which is below 1 (0.99999 at h = 10.0001).
C15_AmanteRedRampBelowOne ==
    (call.op = "evaluate" /\ call.model = "Amante") =>
        /\ h_channel[1] = Deg(10) => AmanteRedDegree = One
        /\ (Deg(10) < h_channel[1] /\ h_channel[1] <= Deg(20)) =>
              /\ AmanteRedDegree = 2 * One - TenthOfHue
              /\ AmanteRedDegree < One

\* the first hue of the grid above 10
C15_Witness ==
    /\ call.op = "evaluate"
    /\ call.model = "Amante"
    /\ h_channel[1] = Deg(10) + 1
    /\ AmanteRedDegree = One - 90


\* ------------------------------------------------------------ removal disabled
\* C16: a segment call with remove_achromatic_colours=False returns the
\* chromatic classification itself: every pixel, whatever its saturation and
\* value, has its arg-max label in the label map and that label's
\* representative colour in the image.
C16_RemovalDisabledKeepsChromatic ==
    (/\ call.op = "segment"
     /\ call.model \in {"Amante", "Chamorro", "Shamir"}
     /\ DOMAIN call.args = {"remove_achromatic_colours"}
     /\ ~call.args.remove_achromatic_colours) =>
        /\ outcome = Returned
        /\ result.segmented_classes = classification
        /\ result.segmented_image =
               draw_class_segmentation(Len(image), classification, class_representation)


\* ------------------------------------------------------------ mask exclusivity
\* the black, white and grey masks an overlay computes, and their colours
AchromaticMasks(op, s_channel, v_channel) ==
    IF op = "draw_achromatic_classes"
    THEN <<get_black_pixels(v_channel), get_white_pixels(s_channel, v_channel),
           get_gray_pixels(s_channel, v_channel)>>
    ELSE <<Amante_get_black_pixels(v_channel),
           Amante_get_white_pixels(s_channel, v_channel),
           Amante_get_gray_pixels(s_channel, v_channel)>>

MaskColours == <<<<0, 0, 0>>, <<255, 255, 255>>, <<128, 128, 128>>>>

\* the six orders in which three masks can be painted
PaintOrders == {order \in [1..3 -> 1..3] : \A j, k \in 1..3 : order[j] = order[k] => j = k}

PaintInOrder(chromatic_segmentation, masks, order) ==
    PaintMask(PaintMask(PaintMask(chromatic_segmentation,
                                  masks[order[1]], MaskColours[order[1]]),
                        masks[order[2]], MaskColours[order[2]]),
              masks[order[3]], MaskColours[order[3]])

\* C17: at every pixel at most one of the black, white and grey masks is
\* true, and the overlay's result is what painting the three masks gives in
\* each of the six orders.
C17_MasksExclusive ==
    [][call'.op \in OverlayOps =>
          /\ \A i \in DOMAIN image :
                Cardinality({k \in 1..3 :
                    AchromaticMasks(call'.op, SChannel(image), VChannel(image))[k][i]}) <= 1
          /\ \A order \in PaintOrders :
                PaintInOrder(segmentation,
                             AchromaticMasks(call'.op, SChannel(image), VChannel(image)),
                             order) = segmentation']_vars

\* a dark unsaturated pixel, within the saturation bound of grey and of white,
\* painted black and nothing else
C17_Witness ==
    /\ call.op = "draw_achromatic_classes"
    /\ image[1].s = Pct(14)
    /\ image[1].v = Pct(19)
    /\ segmentation[1] = <<0, 0, 0>>


\* ------------------------------------------------------------ repeated calls
\* The model segmentators and the entry point together, on the two-pixel
\* images of an orange and a mid-grey pixel, with one earlier segment call of
\* the behaviour remembered.
HistoryPixels == {Pixel(18, 100, 100), Pixel(0, 0, 50)}
HistoryArgs ==
    {NoArgs, [remove_achromatic_colours |-> FALSE], [apply_colour_correction |-> FALSE]}
HistoryLabels == {NoLabels, [given |-> TRUE, dict |-> CustomPalette(0..9)]}

InitHistory ==
    /\ image \in [1..2 -> HistoryPixels]
    /\ segmentator = "none"
    /\ class_representation = <<>>
    /\ call = NoCall
    /\ outcome = NoOutcome
    /\ result = NoResult
    /\ h_channel = <<>>
    /\ memberships = <<>>
    /\ classification = <<>>
    /\ segmentation = <<>>
    /\ red_proportion = NoProportion
    /\ colour_proportion = NoProportion
    /\ previous = NoObservation

NextHistory ==
    \/ AmanteInit
    \/ ChamorroInit
    \/ LiuWangInit
    \/ \E labels_representation \in HistoryLabels : ShamirInit(labels_representation)
    \/ \E args \in HistoryArgs : AmanteSegment(args)
    \/ \E args \in HistoryArgs : ChamorroSegment(args)
    \/ \E args \in HistoryArgs : LiuWangSegment(args)
    \/ \E args \in HistoryArgs : ShamirSegment(args)
    \/ \E method \in Methods : SegmentatorSegment(method, NoArgs)

SpecHistory == InitHistory /\ [][NextHistory]_vars

\* the call converts a colour-corrected image: the converter's output is an
\* input of the call
Corrects(c) ==
    /\ c.model = "LiuWang" \/ c.method = "FUZZY_SET_LIU"
    /\ Arg(c.args, "apply_colour_correction", TRUE)

\* the last call repeats the remembered one: the same operation, model,
\* selector and options on an object with the same palette and image, and,
\* where a corrected image is converted, the same converted hue
RepeatsPrevious ==
    /\ call.op \in SegmentOps
    /\ previous.seen
    /\ previous.call = call
    /\ call.op = "segment" => previous.palette = class_representation
    /\ Corrects(call) => previous.h_channel = h_channel

NextClassify ==
    \/ AmanteInit
    \/ ChamorroInit
    \/ LiuWangInit
    \/ ShamirInit(NoLabels)
    \/ AmanteSegment(NoArgs)
    \/ ChamorroSegment(NoArgs)
    \/ LiuWangSegment(NoArgs)
    \/ ShamirSegment(NoArgs)

SpecClassify == InitMembership /\ [][NextClassify]_vars

\* the number of membership functions each model is said to stack
StackedFunctions(m) ==
    CASE m = "LiuWang" -> 7
      [] m = "Amante" -> 9
      [] m = "Shamir" -> 10
      [] m = "Chamorro" -> 12

\* C20: a segment call stacks 7 (Liu-Wang), 9 (Amante), 10 (Shamir) or 12
\* (Chamorro) membership arrays, labels every pixel with one of 0 .. N-1, the
\* model's default palette has exactly these keys, and the chromatic
\* rendering gives every pixel its label's colour, never the zero background.
C20_LabelsCoveredByPalette ==
    (call.op = "segment" /\ classification # <<>>) =>
        /\ DOMAIN DefaultPalette(call.model) = 0..(StackedFunctions(call.model) - 1)
        /\ \A i \in DOMAIN image :
              /\ DOMAIN memberships[i] = 0..(StackedFunctions(call.model) - 1)
              /\ classification[i] \in 0..(StackedFunctions(call.model) - 1)
              /\ draw_class_segmentation(Len(image), classification,
                                         DefaultPalette(call.model))[i]
                     = ReverseChannels(DefaultPalette(call.model)[classification[i]])
              /\ draw_class_segmentation(Len(image), classification,
                                         DefaultPalette(call.model))[i] # <<0, 0, 0>>
              /\ segmentation[i] # <<0, 0, 0>>

\* a purple pixel gets the last Liu-Wang label and its colour
C20_Witness ==
    /\ call.op = "segment"
    /\ call.model = "LiuWang"
    /\ h_channel = <<Deg(300)>>
    /\ classification = <<6>>
    /\ segmentation = <<<<159, 80, 158>>>>


\* ------------------------------------------------------------ elapsed time
\* C21: the elapsed_time of a returned SegmentationResult is the clock at the
\* end of the call minus the clock at its start, hence never negative when
\* the clock does not run backwards.
C21_ElapsedTimeNonNegative ==
    (call.op = "segment" /\ outcome = Returned /\ result.kind = "SegmentationResult") =>
        result.elapsed_time >= 0


\* ------------------------------------------------------------ channel shapes
\* numpy arrays with a shape: the elements by index tuple.  The last axis of
\* a rendering (the three colour channels) is held in the element.
Array(shape, at) == [shape |-> shape, at |-> at]

Indices(shape) ==
    {t \in [1..Len(shape) -> 1..3] : \A k \in 1..Len(shape) : t[k] <= shape[k]}

ArraysOf(shape, values) == {Array(shape, at) : at \in [Indices(shape) -> values]}

\* numpy broadcasting of two shapes, aligned at their last axis
PadShape(shape, n) == [k \in 1..n |-> IF k <= n - Len(shape) THEN 1 ELSE shape[k - (n - Len(shape))]]
MaxOf(a, b) == IF a >= b THEN a ELSE b
Broadcastable(sh1, sh2) ==
    LET n == MaxOf(Len(sh1), Len(sh2))
    IN \A k \in 1..n :
          \/ PadShape(sh1, n)[k] = PadShape(sh2, n)[k]
          \/ PadShape(sh1, n)[k] = 1
          \/ PadShape(sh2, n)[k] = 1
BroadcastShape(sh1, sh2) ==
    LET n == MaxOf(Len(sh1), Len(sh2))
    IN [k \in 1..n |-> MaxOf(PadShape(sh1, n)[k], PadShape(sh2, n)[k])]
\* the element of array a that index t of the broadcast shape reads
BroadcastAt(a, t) ==
    LET n == Len(t)
        m == Len(a.shape)
    IN a.at[[k \in 1..m |-> IF a.shape[k] = 1 THEN 1 ELSE t[k + (n - m)]]]

\* numpy.logical_and(a, b) of two broadcastable boolean arrays
LogicalAnd(a, b) ==
    Array(BroadcastShape(a.shape, b.shape),
          [t \in Indices(BroadcastShape(a.shape, b.shape)) |->
              BroadcastAt(a, t) /\ BroadcastAt(b, t)])

\* the masks of FuzzySetSegmentator on arrays
BlackMask(v_channel) ==
    Array(v_channel.shape, [t \in Indices(v_channel.shape) |-> v_channel.at[t] <= Pct(19)])
SaturationMask(s_channel) ==
    Array(s_channel.shape, [t \in Indices(s_channel.shape) |-> s_channel.at[t] <= Pct(14)])
WhiteValueMask(v_channel) ==
    Array(v_channel.shape, [t \in Indices(v_channel.shape) |-> v_channel.at[t] > Pct(81)])
GrayValueMask(v_channel) ==
    Array(v_channel.shape,
          [t \in Indices(v_channel.shape) |->
              v_channel.at[t] <= Pct(81) /\ Pct(19) < v_channel.at[t]])

\* chromatic_segmentation[mask, :] = colour: the boolean mask indexes the
\* leading axes and must have their lengths; one more axis must be left for
\* the slice
MaskFits(rendering_shape, mask_shape) ==
    /\ Len(mask_shape) + 1 <= Len(rendering_shape)
    /\ \A k \in 1..Len(mask_shape) : mask_shape[k] = rendering_shape[k]

PaintArray(rendering, mask, colour) ==
    Array(rendering.shape,
          [t \in DOMAIN rendering.at |->
              IF mask.at[[k \in 1..Len(mask.shape) |-> t[k]]]
              THEN colour ELSE rendering.at[t]])

\* FuzzySetSegmentator.draw_achromatic_classes on arrays of any shape: the
\* three masks, then the three paintings, the first failing step ending the
\* call
DrawAchromaticFrame(s_channel, v_channel, chromatic_segmentation) ==
    IF ~Broadcastable(v_channel.shape, s_channel.shape)
    THEN EmptyFrame(Raised("ValueError", <<"logical_and">>), NoResult)
    ELSE IF \/ ~MaskFits(chromatic_segmentation.shape, v_channel.shape)
            \/ ~MaskFits(chromatic_segmentation.shape,
                         BroadcastShape(v_channel.shape, s_channel.shape))
    THEN EmptyFrame(Raised("IndexError", <<"boolean index">>), NoResult)
    ELSE EmptyFrame(Returned,
             ImageResult(
                 PaintArray(
                     PaintArray(
                         PaintArray(chromatic_segmentation, BlackMask(v_channel), <<0, 0, 0>>),
                         LogicalAnd(WhiteValueMask(v_channel), SaturationMask(s_channel)),
                         <<255, 255, 255>>),
                     LogicalAnd(GrayValueMask(v_channel), SaturationMask(s_channel)),
                     <<128, 128, 128>>)))

\* saturation channels of one and of two axes, value channels of one value
\* throughout (dark, or of middle value), all-orange renderings of two and
\* of three axes
ChannelShapes == {<<2>>, <<3>>, <<1, 2>>, <<2, 2>>}
SChannels == UNION {ArraysOf(shape, {0, Pct(100)}) : shape \in ChannelShapes}
VChannels ==
    UNION {ArraysOf(shape, {val}) : shape \in ChannelShapes, val \in {Pct(10), Pct(50)}}
Renderings ==
    {Array(shape, [t \in Indices(SubSeq(shape, 1, Len(shape) - 1)) |-> <<9, 148, 255>>]) :
        shape \in {<<2, 3>>, <<2, 2, 3>>}}

InitShapes ==
    /\ image = <<>>
    /\ segmentator = "none"
    /\ class_representation = <<>>
    /\ call = NoCall
    /\ outcome = NoOutcome
    /\ result = NoResult
    /\ h_channel = <<>>
    /\ memberships = <<>>
    /\ classification = <<>>
    /\ segmentation = <<>>
    /\ red_proportion = NoProportion
    /\ colour_proportion = NoProportion
    /\ previous = NotObserving

\* FuzzySetSegmentator.draw_achromatic_classes(s_channel, v_channel,
\* chromatic_segmentation), called on a caller's arrays
DrawAchromaticClassesOnArrays(s_channel, v_channel, chromatic_segmentation) ==
    /\ call' = Call("FuzzySetSegmentator.draw_achromatic_classes", "none", "none",
                    [s_channel |-> s_channel, v_channel |-> v_channel,
                     chromatic_segmentation |-> chromatic_segmentation], 0)
    /\ Leave(DrawAchromaticFrame(s_channel, v_channel, chromatic_segmentation))
    /\ UNCHANGED object

NextShapes ==
    \E s_channel \in SChannels, v_channel \in VChannels, chromatic_segmentation \in Renderings :
        DrawAchromaticClassesOnArrays(s_channel, v_channel, chromatic_segmentation)

SpecShapes == InitShapes /\ [][NextShapes]_vars

\* C22: a call whose saturation and value channels are not both of two axes
\* or differ in shape raises an error.
C22_MalformedChannelsRejected ==
    (/\ call.op = "FuzzySetSegmentator.draw_achromatic_classes"
     /\ \/ Len(call.args.s_channel.shape) # 2
        \/ Len(call.args.v_channel.shape) # 2
        \/ call.args.s_channel.shape # call.args.v_channel.shape) =>
        outcome.status = "raised"


\* ------------------------------------------------------------ ramps
\* the hue is a whole number of degrees, as every breakpoint of the models is
WholeDegree(h) == h % HueScale = 0

\* f(h - 1) - 2 f(h) + f(h + 1) over three neighbouring hues of the grid:
\* zero where class c of model m is a straight line through the three
SecondDifference(m, c, h) ==
    Degree(m, c, h - 1) - 2 * Degree(m, c, h) + Degree(m, c, h + 1)

\* Between two whole degrees the function is one straight line, also right
\* next to a breakpoint: the segment that ends at the breakpoint and the
\* segment that starts there evaluate to the same degree at the breakpoint.
MeetsAtBreakpoints(m, c, h) ==
    (h - 1 \in 0..Deg(360) /\ h + 1 \in 0..Deg(360) /\ ~WholeDegree(h)) =>
        SecondDifference(m, c, h) = 0

\* where the function is constant over three neighbouring hues it is 0 or 1
ConstantIsZeroOrOne(m, c, h) ==
    (/\ h - 1 \in 0..Deg(360) /\ h + 1 \in 0..Deg(360)
     /\ Degree(m, c, h - 1) = Degree(m, c, h)
     /\ Degree(m, c, h + 1) = Degree(m, c, h)) =>
        Degree(m, c, h) \in {0, One}

\* C23: every function of the Amante, Chamorro and Liu-Wang models is a
\* trapezoid: its constant segments are the plateau 1 and the zero branch,
\* and each ramp evaluates at its two breakpoints to the constants it joins,
\* 0 and 1 when rising, 1 and 0 when falling.
C23_TrapezoidalShape ==
    (call.op = "evaluate" /\ call.model \in {"Amante", "Chamorro", "LiuWang"}) =>
        \A c \in ClassesOf(call.model) :
            /\ memberships[1][c] = Degree(call.model, c, h_channel[1])
            /\ MeetsAtBreakpoints(call.model, c, h_channel[1])
            /\ ConstantIsZeroOrOne(call.model, c, h_channel[1])


\* ------------------------------------------------------------ triangles
\* the breakpoints a, b, c, in degrees, of the Shamir classes 1 .. 9
ShamirBreakpoints(c) ==
    CASE c = 1 -> <<0, 30, 45>>
      [] c = 2 -> <<30, 45, 60>>
      [] c = 3 -> <<45, 60, 90>>
      [] c = 4 -> <<60, 75, 120>>
      [] c = 5 -> <<90, 120, 180>>
      [] c = 6 -> <<120, 180, 240>>
      [] c = 7 -> <<180, 240, 300>>
      [] c = 8 -> <<240, 300, 330>>
      [] c = 9 -> <<300, 330, 360>>

\* degree d is the triangle over a, b, c at hue h: (h - a)/(b - a) on [a, b],
\* (c - h)/(c - b) on [b, c], 0 outside
OnTriangle(d, abc, h) ==
    IF Deg(abc[1]) <= h /\ h <= Deg(abc[2])
    THEN d * (Deg(abc[2]) - Deg(abc[1])) = (h - Deg(abc[1])) * One
    ELSE IF Deg(abc[2]) <= h /\ h <= Deg(abc[3])
    THEN d * (Deg(abc[3]) - Deg(abc[2])) = (Deg(abc[3]) - h) * One
    ELSE d = 0

\* the red triangle, wrapped: 1 at 0 falling to 0 at 30, 0 at 330 rising to
\* 1 at 360
OnWrappedTriangle(d, h) ==
    IF h <= Deg(30) THEN d * Deg(30) = (Deg(30) - h) * One
    ELSE IF Deg(330) <= h THEN d * Deg(30) = (h - Deg(330)) * One
    ELSE d = 0

\* C24: each of the ten Shamir functions is the triangle over its
\* breakpoints, rising linearly from 0 at a to 1 at b and falling linearly to
\* 0 at c, 0 outside [a, c]; red is 1 at hue 0 falling to 0 at 30 and rises
\* from 0 at 330 to 1 at 360.
C24_ShamirTriangles ==
    (call.op = "evaluate" /\ call.model = "Shamir") =>
        /\ DOMAIN memberships[1] = 0..9
        /\ OnWrappedTriangle(memberships[1][0], h_channel[1])
        /\ \A c \in 1..9 : OnTriangle(memberships[1][c], ShamirBreakpoints(c), h_channel[1])

\* at hue 60 yellow peaks at 1 between light orange and light green at 0;
\* at 75 it has fallen by a half
C24_Witness ==
    /\ call.op = "evaluate"
    /\ call.model = "Shamir"
    /\ h_channel[1] = Deg(75)
    /\ memberships[1][3] * 2 = One
    /\ memberships[1][4] = One
    /\ memberships[1][2] = 0


\* ------------------------------------------------------------ red proportion
\* the pixels of the segmented image that carry the red class: labelled 0 and
\* shown in the red representative colour
RedClassPixels ==
    {i \in DOMAIN segmentation :
        /\ classification[i] = 0
        /\ segmentation[i] = ReverseChannels(<<255, 33, 36>>)}

\* C25: the red proportion a segment computes is the number of pixels of the
\* segmented image that were assigned the red class over the number of
\* pixels; pixels of any other class are not counted.
C25_RedProportionCountsRedClass ==
    (call.op = "segment" /\ red_proportion # NoProportion) =>
        red_proportion = <<Cardinality(RedClassPixels), Len(image)>>



\* ------------------------------------------------------------------ plateaus
\* lo <= h <= hi and lo < h <= hi, in whole degrees, as the branch conditions
\* of the membership functions write them
Closed(lo, hi, h) == Deg(lo) <= h /\ h <= Deg(hi)

LeftOpen(lo, hi, h) == Deg(lo) < h /\ h <= Deg(hi)

\* the condition of the branch of class c's membership function that returns 1
Amante_plateau(c, h) ==
    CASE c = 0 -> LeftOpen(0, 10, h) \/ LeftOpen(350, 360, h)
      [] c = 1 -> Closed(20, 30, h)
      [] c = 2 -> Closed(34, 42, h)
      [] c = 3 -> Closed(50, 70, h)
      [] c = 4 -> Closed(100, 140, h)
      [] c = 5 -> Closed(160, 200, h)
      [] c = 6 -> Closed(220, 260, h)
      [] c = 7 -> Closed(290, 310, h)
      [] c = 8 -> Closed(315, 335, h)

Chamorro_plateau(c, h) ==
    IF c = 0 THEN LeftOpen(0, 10, h) \/ LeftOpen(350, 360, h)
             ELSE Closed(30 * c - 10, 30 * c + 10, h)

LiuWang_plateau(c, h) ==
    CASE c = 0 -> Closed(0, 10, h) \/ LeftOpen(330, 360, h)
      [] c = 1 -> LeftOpen(20, 40, h)
      [] c = 2 -> LeftOpen(55, 65, h)
      [] c = 3 -> LeftOpen(80, 140, h)
      [] c = 4 -> LeftOpen(170, 200, h)
      [] c = 5 -> Closed(210, 250, h)
      [] c = 6 -> LeftOpen(270, 300, h)

\* the Shamir functions are triangles: no branch returns 1
Plateau(m, c, h) ==
    CASE m = "Amante" -> Amante_plateau(c, h)
      [] m = "Chamorro" -> Chamorro_plateau(c, h)
      [] m = "LiuWang" -> LiuWang_plateau(c, h)
      [] m = "Shamir" -> FALSE

\* C26: every hue that satisfies the condition of a class's plateau branch,
\* endpoints included, is labelled with that class by the arg-max of a
\* segment; under Amante every hue from 290 to 310 is labelled purple (7).
C26_PlateauHuesLabelledWithClass ==
    (call.op = "segment" /\ classification # <<>>) =>
        \A c \in ClassesOf(call.model) :
            Plateau(call.model, c, h_channel[1]) => classification[1] = c



\* ------------------------------------------------------------------ pure red
\* C27: under each of the four models a pixel of hue exactly 0 is given class
\* index 0 (red) by the chromatic classification of a segment.
C27_HueZeroIsRed ==
    (call.op = "segment" /\ classification # <<>>) =>
        \A i \in DOMAIN h_channel : h_channel[i] = 0 => classification[i] = 0

\* Amante's red is 0 at hue 0, as is every other class: the pixel is red by
\* the arg-max keeping the first of equal degrees
C27_Witness ==
    /\ call.op = "segment"
    /\ call.model = "Amante"
    /\ h_channel = <<0>>
    /\ \A c \in ClassesOf("Amante") : memberships[1][c] = 0
    /\ classification = <<0>>



\* ---------------------------------------------------------------------- arcs
\* the label segment gives the pixel of a one-pixel image of hue h under
\* model m: the vectorised functions, stacked, then the arg-max
LabelOf(m, h) == ArgMax(StackMemberships(m, <<h>>)[1], NumClasses(m))

\* the hues of [0, 360) on the grid, and their successors round the circle
CircleGrid == 0..(Deg(360) - 1)

NextOnCircle(h) == (h + 1) % Deg(360)

\* labels, a label for every hue of the circle, form n arcs in class order:
\* every class has a hue, going round the circle the label stays or steps to
\* the next class (from the last class back to 0), and it steps back to 0 once
ArcsInClassOrder(labels, n) ==
    /\ \A c \in 0..(n - 1) : \E h \in CircleGrid : labels[h] = c
    /\ \A h \in CircleGrid :
          \/ labels[NextOnCircle(h)] = labels[h]
          \/ labels[NextOnCircle(h)] = (labels[h] + 1) % n
    /\ Cardinality({h \in CircleGrid :
                       labels[h] = n - 1 /\ labels[NextOnCircle(h)] = 0}) = 1

\* C28: for every model the hues of [0, 360) that the arg-max assigns to a
\* class are one non-empty contiguous arc of the hue circle, the arcs follow
\* each other in class order with the red arc wrapping through 0/360, and
\* no pixel of a segmented image is given a class outside the arc of its hue.
C28_ClassesAreArcsInOrder ==
    (call.op = "segment" /\ classification # <<>>) =>
        /\ ArcsInClassOrder([h \in CircleGrid |-> LabelOf(call.model, h)],
                            NumClasses(call.model))
        /\ \A i \in DOMAIN h_channel :
              h_channel[i] \in CircleGrid =>
                  classification[i] = LabelOf(call.model, h_channel[i])



\* ------------------------------------------------------- the two overlays
\* C29: the achromatic overlay of the Amante segmentator, with its own three
\* masks and painting order, and the overlay of the base class give the same
\* image for every saturation, value and chromatic segmentation: whichever
\* of the two is called, the image it leaves is the image of both.
C29_AmanteOverlayIsBaseOverlay ==
    [][call'.op \in OverlayOps =>
          /\ segmentation' = draw_achromatic_classes(SChannel(image), VChannel(image),
                                                     segmentation)
          /\ segmentation' = Amante_graw_achromatic_classes(segmentation,
                                 Amante_get_black_pixels(VChannel(image)),
                                 Amante_get_gray_pixels(SChannel(image), VChannel(image)),
                                 Amante_get_white_pixels(SChannel(image), VChannel(image)))
          /\ Amante_get_black_pixels(VChannel(image)) = get_black_pixels(VChannel(image))
          /\ Amante_get_gray_pixels(SChannel(image), VChannel(image))
                 = get_gray_pixels(SChannel(image), VChannel(image))
          /\ Amante_get_white_pixels(SChannel(image), VChannel(image))
                 = get_white_pixels(SChannel(image), VChannel(image))]_vars

\* a bright pixel at the saturation bound 0.14, rendered in a class colour and
\* then painted white by Amante's overlay
C29_Witness ==
    /\ call.op = "__graw_achromatic_classes"
    /\ image[1].s = Pct(14)
    /\ image[1].v = Pct(100)
    /\ classification[1] = 0
    /\ class_representation = ChamorroPalette
    /\ segmentation[1] = <<255, 255, 255>>



\* ------------------------------------------------------- zero channel mean
\* C30: the colour correction is defined for every image with channel values
\* in [0, 1]; when a channel is 0 at every pixel, so that its mean is 0, the
\* correction still returns an image all of whose values are finite numbers
\* in [0, 1].
C30_CorrectionDefinedOnZeroChannel ==
    (/\ call.op = "__apply_color_correction"
     /\ \E c \in 1..3 : SumSeq(InputChannel(c)) = 0) =>
        /\ outcome = Returned
        /\ \A c \in 1..3 : \A i \in DOMAIN image :
              /\ ~CorrectedChannel(c)[i].nan
              /\ 0 <= CorrectedChannel(c)[i].num
              /\ CorrectedChannel(c)[i].num <= CorrectedChannel(c)[i].den

====
